---- MODULE Spec2Model ----
(***************************************************************************)
(* Model of the playtest harness: layered configuration resolution of      *)
(* BrowserFactory / MobileFactory and the factories' resource lifecycle.    *)
(*                                                                         *)
(* Python values are represented as follows:                               *)
(*   str            a sequence of one-character strings                    *)
(*   dict           a function whose DOMAIN is the set of keys present     *)
(*   Optional[T]    <<>> for None, <<v>> for a value v                     *)
(***************************************************************************)
EXTENDS Integers, Sequences, FiniteSets, TLC

VARIABLES
    \* ---- configuration resolution (one factory is configured per run) ----
    run,            \* "browser" or "mobile": the factory this run configures
    pc,             \* "start", "overrides", "built" or "ValueError"
    environ,        \* os.environ restricted to the variables of the model
    options,        \* pytest command line options (request.config.getoption)
    file_config,    \* the dict handed to BrowserFactory(config, ...)
    cli_overrides,  \* the dict built by the cli_browser_overrides fixture
    caller_config,  \* the caller's dict as it is after BrowserFactory(...)
    config,         \* BrowserFactory.config (the resolved BrowserConfig)
    settings_browser, \* configs.config.BrowserConfig.from_yaml(file_config)
    core_config,    \* the core dict handed to MobileFactory(...)
    data_config,    \* the data dict handed to MobileFactory(...)
    mobile_overrides, \* the dict built by the cli_mobile_overrides fixture
    mobile_config,  \* MobileFactory.config (the resolved MobileConfig)
    \* ---- factory lifecycle ----
    _playwright,    \* BrowserFactory._playwright: 0 for None, else an engine id
    _browser,       \* BrowserFactory._browser: 0 for None, else a browser id
    _contexts,      \* BrowserFactory._contexts: list of context ids
    _pages,         \* BrowserFactory._pages: list of page ids
    _driver,        \* MobileFactory._driver: 0 for None, else a driver id
    world,          \* the Playwright / Appium objects created so far
    last,           \* the last call: its name, result and release events
    \* ---- configs/config.py: the settings of the session ----
    fs,             \* the configuration files that exist (a set of paths)
    _settings_instance, \* config._settings_instance: 0 for None, else a heap index
    heap,           \* the Settings objects built so far, in allocation order
    slast,          \* the last get_settings / load_config call
    \* ---- conftest.py: one test item run through setup, call, teardown ----
    item,           \* the test item: requested fixtures and item.funcargs
    rpc,            \* position in the run of the item
    pending,        \* the phase report handed to pytest_runtest_makereport next
    reports,        \* the phase reports the hook has processed
    attached,       \* the allure.attach calls made by the hook, in order
    logged,         \* the logger.warning calls made by the hook, in order
    collections,    \* how often the hook has collected failure artifacts
    capture,        \* which capture steps raise / apply at the collection
    result,         \* the adapter call made by the test body and how it ended
    \* ---- concurrent creation, API client, singletons, scrolling ----
    threads,        \* the threads inside launch_browser / create_driver
    api,            \* an APIClient with its RequestsAPIActions and session
    registry,       \* the module-level _factory_instance slots and factories
    scroll          \* one scroll_to_element call, statement by statement

cvars == <<run, pc, environ, options, file_config, cli_overrides, caller_config,
           config, settings_browser, core_config, data_config,
           mobile_overrides, mobile_config>>

fvars == <<_playwright, _browser, _contexts, _pages, _driver, world, last>>

svars == <<fs, _settings_instance, heap, slast>>

rvars == <<item, rpc, pending, reports, attached, logged, collections, capture,
           result>>

yvars == <<threads, api, registry, scroll>>

xvars == <<svars, rvars, yvars>>

vars == <<cvars, fvars, xvars>>

----------------------------------------------------------------------------
(* Python str helpers                                                      *)

UpperAlphabet == <<"A","B","C","D","E","F","G","H","I","J","K","L","M",
                   "N","O","P","Q","R","S","T","U","V","W","X","Y","Z">>
LowerAlphabet == <<"a","b","c","d","e","f","g","h","i","j","k","l","m",
                   "n","o","p","q","r","s","t","u","v","w","x","y","z">>
Digits == <<"0","1","2","3","4","5","6","7","8","9">>

\* str.lower() of one character
LowerChar(c) ==
    IF \E i \in 1..26 : UpperAlphabet[i] = c
    THEN LowerAlphabet[CHOOSE i \in 1..26 : UpperAlphabet[i] = c]
    ELSE c

\* str.lower()
Lower(s) == [i \in 1..Len(s) |-> LowerChar(s[i])]

IsDigit(c) == \E i \in 1..10 : Digits[i] = c
DigitVal(c) == (CHOOSE i \in 1..10 : Digits[i] = c) - 1

RECURSIVE DigitsValue(_)
DigitsValue(s) ==
    IF s = <<>> THEN 0
    ELSE 10 * DigitsValue(SubSeq(s, 1, Len(s) - 1)) + DigitVal(s[Len(s)])

\* int(s) for a str s: an optional sign followed by decimal digits; anything
\* else raises ValueError (ok = FALSE).
ParseInt(s) ==
    LET signed == s # <<>> /\ s[1] \in {"-", "+"}
        body   == IF signed THEN Tail(s) ELSE s
    IN  IF body # <<>> /\ \A i \in 1..Len(body) : IsDigit(body[i])
        THEN [ok |-> TRUE,
              val |-> IF signed /\ s[1] = "-" THEN 0 - DigitsValue(body)
                      ELSE DigitsValue(body)]
        ELSE [ok |-> FALSE, val |-> 0]

\* the converter of BROWSER_HEADLESS / MOBILE_NO_RESET: x.lower() == "true"
TrueStr == <<"t","r","u","e">>
ParseBool(s) == Lower(s) = TrueStr

----------------------------------------------------------------------------
(* Python dict helpers                                                     *)

Has(d, k) == k \in DOMAIN d
\* d.get(k, default)
Get(d, k, default) == IF k \in DOMAIN d THEN d[k] ELSE default
\* d[k] = v
Put(d, k, v) == (k :> v) @@ d
EmptyDict == [k \in {} |-> 0]
\* the dict holding the keys of r whose option is present
DictOf(r) == [k \in {x \in DOMAIN r : r[x] # <<>>} |-> r[k][1]]

----------------------------------------------------------------------------
(* Values of the browser configuration domain                              *)

S_chromium == <<"c","h","r","o","m","i","u","m">>
S_firefox  == <<"f","i","r","e","f","o","x">>
S_webkit   == <<"w","e","b","k","i","t">>

\* compiled-in defaults of adapters/ui/browser_factory.py BrowserConfig
DefaultBrowserType == S_chromium
DefaultHeadless == TRUE
DefaultSlowMo == 0
DefaultTimeout == 30000
DefaultViewportWidth == 1920
DefaultViewportHeight == 1080
DefaultTraceOnFailure == TRUE

\* Optional[T] over a set of values
Opt(S) == {<<>>} \cup {<<v>> : v \in S}

\* at most this many entries are supplied over all layers of one run
MaxSupplied == 4

\* values a configuration file supplies in the model, per key
FileValues ==
    [type |-> {S_firefox}, default |-> {S_webkit}, headless |-> BOOLEAN,
     slow_mo |-> {50}, timeout |-> {5000}]
FileViewportValues == [width |-> {800}, height |-> {600}]

\* values of the recognised browser environment variables in the model
BrowserEnvValues ==
    [BROWSER_TYPE            |-> {<<>>, S_webkit},
     BROWSER_HEADLESS        |-> {<<"f","a","l","s","e">>, <<"T","r","u","e">>},
     BROWSER_SLOW_MO         |-> {<<"2","5","0">>},
     BROWSER_TIMEOUT         |-> {<<"1","0","0">>, <<"1","0","s">>},
     BROWSER_VIEWPORT_WIDTH  |-> {<<"1","2","8","0">>},
     BROWSER_VIEWPORT_HEIGHT |-> {<<"7","2","0">>}]

\* pytest options: --browser-type (choices), --headed (flag), --slow-mo (int)
BrowserTypeChoices == {S_chromium, S_firefox}
SlowMoChoices == {0, 10}

----------------------------------------------------------------------------
(* conftest.py: cli_browser_overrides                                      *)

cli_browser_overrides(opts) ==
    LET o1 == IF opts.browser_type # <<>> /\ opts.browser_type[1] # <<>>
              THEN Put(EmptyDict, "browser_type", opts.browser_type[1])
              ELSE EmptyDict
        o2 == IF opts.headed THEN Put(o1, "headed", TRUE) ELSE o1
        o3 == IF opts.slow_mo # <<>> THEN Put(o2, "slow_mo", opts.slow_mo[1])
              ELSE o2
    IN  o3

----------------------------------------------------------------------------
(* adapters/ui/browser_factory.py: configuration resolution                *)

env_mappings ==
    << [var |-> "BROWSER_TYPE",            key |-> <<"type">>,               conv |-> "str"],
       [var |-> "BROWSER_HEADLESS",        key |-> <<"headless">>,           conv |-> "bool"],
       [var |-> "BROWSER_SLOW_MO",         key |-> <<"slow_mo">>,            conv |-> "int"],
       [var |-> "BROWSER_TIMEOUT",         key |-> <<"timeout">>,            conv |-> "int"],
       [var |-> "BROWSER_VIEWPORT_WIDTH",  key |-> <<"viewport", "width">>,  conv |-> "int"],
       [var |-> "BROWSER_VIEWPORT_HEIGHT", key |-> <<"viewport", "height">>, conv |-> "int"] >>

\* converter(value) of one env_mappings entry
Convert(conv, s) ==
    CASE conv = "str"  -> [ok |-> TRUE, val |-> s]
      [] conv = "bool" -> [ok |-> TRUE, val |-> ParseBool(s)]
      [] conv = "int"  -> ParseInt(s)

\* a nested key written by replacing the parent object
SetKey_replace_parent(cfg, key, v) ==
    IF Len(key) = 2
    THEN Put(cfg, key[1], Put(EmptyDict, key[2], v))
    ELSE Put(cfg, key[1], v)

\* config[key] = v, or config.setdefault(parent, {})[leaf] = v for "parent.leaf"
SetKey(cfg, key, v) ==
    IF Len(key) = 2
    THEN Put(cfg, key[1], Put(Get(cfg, key[1], EmptyDict), key[2], v))
    ELSE Put(cfg, key[1], v)

\* the loop of _apply_env_overrides from entry i on; raised = a converter raised
RECURSIVE ApplyEnvFrom(_, _, _)
ApplyEnvFrom(st, env, i) ==
    IF i > Len(env_mappings) \/ st.raised THEN st
    ELSE LET m == env_mappings[i]
         IN  IF Has(env, m.var) /\ env[m.var] # <<>>
             THEN LET c == Convert(m.conv, env[m.var])
                  IN  IF c.ok
                      THEN ApplyEnvFrom([cfg |-> SetKey(st.cfg, m.key, c.val),
                                         raised |-> FALSE], env, i + 1)
                      ELSE [cfg |-> st.cfg, raised |-> TRUE]
             ELSE ApplyEnvFrom(st, env, i + 1)

_apply_env_overrides(cfg, env) ==
    ApplyEnvFrom([cfg |-> cfg, raised |-> FALSE], env, 1)

_apply_cli_overrides(cfg, cli) ==
    LET c1 == IF Has(cli, "browser_type") /\ cli["browser_type"] # <<>>
              THEN Put(cfg, "type", cli["browser_type"]) ELSE cfg
        c2 == IF Has(cli, "headed") /\ cli["headed"]
              THEN Put(c1, "headless", FALSE) ELSE c1
        c3 == IF Has(cli, "headless")
              THEN Put(c2, "headless", cli["headless"]) ELSE c2
        c4 == IF Has(cli, "slow_mo")
              THEN Put(c3, "slow_mo", cli["slow_mo"]) ELSE c3
    IN  c4

\* from_dict with headless falling back to False
BrowserConfig_from_dict_headed(cfg) ==
    LET viewport == Get(cfg, "viewport", EmptyDict)
        browser_type == IF Has(cfg, "type") /\ cfg["type"] # <<>>
                        THEN cfg["type"]
                        ELSE Get(cfg, "default", DefaultBrowserType)
    IN  [browser_type     |-> browser_type,
         headless         |-> Get(cfg, "headless", FALSE),
         slow_mo          |-> Get(cfg, "slow_mo", DefaultSlowMo),
         timeout          |-> Get(cfg, "timeout", DefaultTimeout),
         viewport_width   |-> Get(viewport, "width", DefaultViewportWidth),
         viewport_height  |-> Get(viewport, "height", DefaultViewportHeight),
         trace_on_failure |-> Get(cfg, "trace_on_failure", DefaultTraceOnFailure)]

\* BrowserConfig.from_dict
BrowserConfig_from_dict(cfg) ==
    LET viewport == Get(cfg, "viewport", EmptyDict)
        browser_type == IF Has(cfg, "type") /\ cfg["type"] # <<>>
                        THEN cfg["type"]
                        ELSE Get(cfg, "default", DefaultBrowserType)
    IN  [browser_type     |-> browser_type,
         headless         |-> Get(cfg, "headless", DefaultHeadless),
         slow_mo          |-> Get(cfg, "slow_mo", DefaultSlowMo),
         timeout          |-> Get(cfg, "timeout", DefaultTimeout),
         viewport_width   |-> Get(viewport, "width", DefaultViewportWidth),
         viewport_height  |-> Get(viewport, "height", DefaultViewportHeight),
         trace_on_failure |-> Get(cfg, "trace_on_failure", DefaultTraceOnFailure)]

\* _build_config with the two override passes swapped
_build_config_cli_first(cfg, env, cli) ==
    LET e == _apply_env_overrides(_apply_cli_overrides(cfg, cli), env)
    IN  [raised |-> e.raised,
         merged |-> e.cfg,
         caller |-> IF Has(cfg, "viewport")
                    THEN Put(cfg, "viewport", e.cfg["viewport"]) ELSE cfg]

\* BrowserFactory._build_config; merged = dict(config) is a shallow copy, so
\* the nested viewport dict is shared with the caller's dict when present.
_build_config(cfg, env, cli) ==
    LET e == _apply_env_overrides(cfg, env)
    IN  [raised |-> e.raised,
         merged |-> IF e.raised THEN e.cfg ELSE _apply_cli_overrides(e.cfg, cli),
         caller |-> IF Has(cfg, "viewport")
                    THEN Put(cfg, "viewport", e.cfg["viewport"]) ELSE cfg]

\* configs/config.py BrowserConfig.from_yaml (the Settings view of the file)
BrowserConfig_from_yaml(data) ==
    IF DOMAIN data = {}
    THEN [type |-> S_chromium, headless |-> TRUE, slow_mo |-> 0,
          timeout |-> 30000, viewport_width |-> 1920, viewport_height |-> 1080,
          screenshot_on_failure |-> TRUE, video_on_failure |-> FALSE,
          trace_on_failure |-> TRUE]
    ELSE LET viewport == Get(data, "viewport", EmptyDict)
         IN  [type            |-> Get(data, "type", S_chromium),
              headless        |-> Get(data, "headless", TRUE),
              slow_mo         |-> Get(data, "slow_mo", 0),
              timeout         |-> Get(data, "timeout", 30000),
              viewport_width  |-> Get(viewport, "width", 1920),
              viewport_height |-> Get(viewport, "height", 1080),
              screenshot_on_failure |-> Get(data, "screenshot_on_failure", TRUE),
              video_on_failure      |-> Get(data, "video_on_failure", FALSE),
              trace_on_failure      |-> Get(data, "trace_on_failure", TRUE)]

----------------------------------------------------------------------------
(* Browser configuration run: the fixture builds the CLI overrides, then   *)
(* BrowserFactory(config, cli_overrides) resolves the configuration.       *)

----------------------------------------------------------------------------
(* Values of the mobile configuration domain                               *)

S_android == <<"a","n","d","r","o","i","d">>
S_ios     == <<"i","o","s">>

\* compiled-in defaults of adapters/mobile/mobile_factory.py MobileConfig
DefaultPlatform == S_android
DefaultAppiumServer == <<"h","t","t","p",":","/","/","l","o","c","a","l","h","o","s","t",":","4","7","2","3">>
DefaultAndroidDeviceName == <<"e","m","u","l","a","t","o","r","-","5","5","5","4">>
DefaultAndroidPlatformVersion == <<"1","3">>
DefaultAndroidAutomationName == <<"U","i","A","u","t","o","m","a","t","o","r","2">>
DefaultIosDeviceName == <<"i","P","h","o","n","e"," ","1","4">>
DefaultIosPlatformVersion == <<"1","6",".","0">>
DefaultIosAutomationName == <<"X","C","U","I","T","e","s","t">>
DefaultNewCommandTimeout == 300
DefaultImplicitWait == 10
DefaultNoReset == FALSE
DefaultFullReset == FALSE

\* keys the two configuration files supply in the model, with their values
MobileFileKeys ==
    << [cfg |-> "core", path |-> <<"mobile", "appium_server">>, vals |-> {<<"h","t","t","p",":","/","/","f",":","1">>}],
       [cfg |-> "core", path |-> <<"mobile", "no_reset">>,      vals |-> BOOLEAN],
       [cfg |-> "core", path |-> <<"mobile", "full_reset">>,    vals |-> {TRUE}],
       [cfg |-> "data", path |-> <<"mobile_app", "android", "platform">>,         vals |-> {S_ios}],
       [cfg |-> "data", path |-> <<"mobile_app", "android", "device_name">>,      vals |-> {<<"f","a">>}],
       [cfg |-> "data", path |-> <<"mobile_app", "android", "platform_version">>, vals |-> {<<"1","2">>}],
       [cfg |-> "data", path |-> <<"mobile_app", "android", "app_path">>,         vals |-> {<<"f",".","a","p","k">>}],
       [cfg |-> "data", path |-> <<"mobile_app", "ios", "device_name">>,          vals |-> {<<"f","i">>}],
       [cfg |-> "data", path |-> <<"mobile_app", "ios", "platform_version">>,     vals |-> {<<"1","5">>}],
       [cfg |-> "data", path |-> <<"mobile_app", "ios", "app_path">>,             vals |-> {<<"f",".","i","p","a">>}],
       [cfg |-> "data", path |-> <<"mobile_app", "ios", "udid">>,                 vals |-> {<<"f","u">>}] >>

\* values of the recognised mobile environment variables in the model
MobileEnvValues ==
    [MOBILE_PLATFORM         |-> {<<"I","O","S">>, S_android},
     MOBILE_DEVICE_NAME      |-> {<<"e","d">>},
     MOBILE_PLATFORM_VERSION |-> {<<"1","4">>},
     MOBILE_APP_PATH         |-> {<<"e",".","a","p","k">>},
     MOBILE_APPIUM_SERVER    |-> {<<"h","t","t","p",":","/","/","e",":","2">>},
     MOBILE_UDID             |-> {<<>>, <<"e","u">>},
     MOBILE_NO_RESET         |-> {<<"t","r","u","e">>, <<"F","a","l","s","e">>},
     MOBILE_FULL_RESET       |-> {<<"T","R","U","E">>}]

\* pytest options: --mobile-platform (choices), --device-name, --app-path,
\* --udid, --no-reset (flag)
MobileOptionValues ==
    [platform |-> {S_android, S_ios}, device_name |-> {<<"c","d">>},
     app_path |-> {<<"c",".","a","p","k">>}, udid |-> {<<"c","u">>}]

----------------------------------------------------------------------------
(* conftest.py: cli_mobile_overrides                                       *)

\* "if x:" for an Optional[str] option
TruthyOpt(o) == o # <<>> /\ o[1] # <<>>

cli_mobile_overrides(opts) ==
    LET o1 == IF TruthyOpt(opts.platform)
              THEN Put(EmptyDict, "platform", opts.platform[1]) ELSE EmptyDict
        o2 == IF TruthyOpt(opts.device_name)
              THEN Put(o1, "device_name", opts.device_name[1]) ELSE o1
        o3 == IF TruthyOpt(opts.app_path)
              THEN Put(o2, "app_path", opts.app_path[1]) ELSE o2
        o4 == IF TruthyOpt(opts.udid)
              THEN Put(o3, "udid", opts.udid[1]) ELSE o3
        o5 == IF opts.no_reset THEN Put(o4, "no_reset", TRUE) ELSE o4
    IN  o5

----------------------------------------------------------------------------
(* adapters/mobile/mobile_factory.py: configuration resolution             *)

\* d.get(k) for an Optional field: None when the key is absent
GetOpt(d, k) == IF k \in DOMAIN d THEN <<d[k]>> ELSE <<>>

\* "if os.environ.get(var):" / "if cli_overrides.get(key):" for a str value
Truthy(d, k) == k \in DOMAIN d /\ d[k] # <<>>

MobileConfig_from_dict(core, data) ==
    LET mobile_core  == Get(core, "mobile", EmptyDict)
        mobile_data  == Get(data, "mobile_app", EmptyDict)
        android_data == Get(mobile_data, "android", EmptyDict)
        ios_data     == Get(mobile_data, "ios", EmptyDict)
    IN  [platform                 |-> Get(android_data, "platform", DefaultPlatform),
         appium_server            |-> Get(mobile_core, "appium_server", DefaultAppiumServer),
         android_device_name      |-> Get(android_data, "device_name", DefaultAndroidDeviceName),
         android_platform_version |-> Get(android_data, "platform_version",
                                          DefaultAndroidPlatformVersion),
         android_app_path         |-> GetOpt(android_data, "app_path"),
         android_app_package      |-> GetOpt(android_data, "app_package"),
         android_app_activity     |-> GetOpt(android_data, "app_activity"),
         android_automation_name  |-> Get(mobile_core, "automation_name",
                                          DefaultAndroidAutomationName),
         ios_device_name          |-> Get(ios_data, "device_name", DefaultIosDeviceName),
         ios_platform_version     |-> Get(ios_data, "platform_version",
                                          DefaultIosPlatformVersion),
         ios_app_path             |-> GetOpt(ios_data, "app_path"),
         ios_bundle_id            |-> GetOpt(ios_data, "bundle_id"),
         ios_udid                 |-> GetOpt(ios_data, "udid"),
         ios_automation_name      |-> DefaultIosAutomationName,
         new_command_timeout      |-> Get(mobile_core, "new_command_timeout",
                                          DefaultNewCommandTimeout),
         implicit_wait            |-> Get(Get(data, "timeouts", EmptyDict),
                                          "implicit_wait", DefaultImplicitWait),
         no_reset                 |-> Get(mobile_core, "no_reset", DefaultNoReset),
         full_reset               |-> Get(mobile_core, "full_reset", DefaultFullReset),
         screenshot_on_failure    |-> Get(Get(core, "browser", EmptyDict),
                                          "screenshot_on_failure", TRUE)]

\* MOBILE_UDID also written to the iOS device name
mobile_apply_env_overrides_udid_device(cfg, env) ==
    LET c1 == IF Truthy(env, "MOBILE_PLATFORM")
              THEN [cfg EXCEPT !.platform = Lower(env["MOBILE_PLATFORM"])] ELSE cfg
        c2 == IF Truthy(env, "MOBILE_APPIUM_SERVER")
              THEN [c1 EXCEPT !.appium_server = env["MOBILE_APPIUM_SERVER"]] ELSE c1
        c3 == IF Truthy(env, "MOBILE_DEVICE_NAME")
              THEN [c2 EXCEPT !.android_device_name = env["MOBILE_DEVICE_NAME"],
                              !.ios_device_name = env["MOBILE_DEVICE_NAME"]] ELSE c2
        c4 == IF Truthy(env, "MOBILE_PLATFORM_VERSION")
              THEN [c3 EXCEPT !.android_platform_version = env["MOBILE_PLATFORM_VERSION"],
                              !.ios_platform_version = env["MOBILE_PLATFORM_VERSION"]]
              ELSE c3
        c5 == IF Truthy(env, "MOBILE_APP_PATH")
              THEN [c4 EXCEPT !.android_app_path = <<env["MOBILE_APP_PATH"]>>,
                              !.ios_app_path = <<env["MOBILE_APP_PATH"]>>] ELSE c4
        c6 == IF Truthy(env, "MOBILE_UDID")
              THEN [c5 EXCEPT !.ios_udid = <<env["MOBILE_UDID"]>>,
                              !.ios_device_name = env["MOBILE_UDID"]] ELSE c5
        c7 == IF Truthy(env, "MOBILE_NO_RESET")
              THEN [c6 EXCEPT !.no_reset = ParseBool(env["MOBILE_NO_RESET"])] ELSE c6
        c8 == IF Truthy(env, "MOBILE_FULL_RESET")
              THEN [c7 EXCEPT !.full_reset = ParseBool(env["MOBILE_FULL_RESET"])] ELSE c7
    IN  c8

mobile_apply_env_overrides(cfg, env) ==
    LET c1 == IF Truthy(env, "MOBILE_PLATFORM")
              THEN [cfg EXCEPT !.platform = Lower(env["MOBILE_PLATFORM"])] ELSE cfg
        c2 == IF Truthy(env, "MOBILE_APPIUM_SERVER")
              THEN [c1 EXCEPT !.appium_server = env["MOBILE_APPIUM_SERVER"]] ELSE c1
        c3 == IF Truthy(env, "MOBILE_DEVICE_NAME")
              THEN [c2 EXCEPT !.android_device_name = env["MOBILE_DEVICE_NAME"],
                              !.ios_device_name = env["MOBILE_DEVICE_NAME"]] ELSE c2
        c4 == IF Truthy(env, "MOBILE_PLATFORM_VERSION")
              THEN [c3 EXCEPT !.android_platform_version = env["MOBILE_PLATFORM_VERSION"],
                              !.ios_platform_version = env["MOBILE_PLATFORM_VERSION"]]
              ELSE c3
        c5 == IF Truthy(env, "MOBILE_APP_PATH")
              THEN [c4 EXCEPT !.android_app_path = <<env["MOBILE_APP_PATH"]>>,
                              !.ios_app_path = <<env["MOBILE_APP_PATH"]>>] ELSE c4
        c6 == IF Truthy(env, "MOBILE_UDID")
              THEN [c5 EXCEPT !.ios_udid = <<env["MOBILE_UDID"]>>] ELSE c5
        c7 == IF Truthy(env, "MOBILE_NO_RESET")
              THEN [c6 EXCEPT !.no_reset = ParseBool(env["MOBILE_NO_RESET"])] ELSE c6
        c8 == IF Truthy(env, "MOBILE_FULL_RESET")
              THEN [c7 EXCEPT !.full_reset = ParseBool(env["MOBILE_FULL_RESET"])] ELSE c7
    IN  c8

mobile_apply_cli_overrides(cfg, cli) ==
    LET c1 == IF Truthy(cli, "platform")
              THEN [cfg EXCEPT !.platform = Lower(cli["platform"])] ELSE cfg
        c2 == IF Truthy(cli, "device_name")
              THEN [c1 EXCEPT !.android_device_name = cli["device_name"],
                              !.ios_device_name = cli["device_name"]] ELSE c1
        c3 == IF Truthy(cli, "app_path")
              THEN [c2 EXCEPT !.android_app_path = <<cli["app_path"]>>,
                              !.ios_app_path = <<cli["app_path"]>>] ELSE c2
        c4 == IF Truthy(cli, "udid")
              THEN [c3 EXCEPT !.ios_udid = <<cli["udid"]>>] ELSE c3
        c5 == IF Has(cli, "no_reset")
              THEN [c4 EXCEPT !.no_reset = cli["no_reset"]] ELSE c4
    IN  c5

\* _build_config with the two override passes swapped
mobile_build_config_cli_first(core, data, env, cli) ==
    mobile_apply_env_overrides(
        mobile_apply_cli_overrides(MobileConfig_from_dict(core, data), cli), env)

\* MobileFactory._build_config
mobile_build_config(core, data, env, cli) ==
    mobile_apply_cli_overrides(
        mobile_apply_env_overrides(MobileConfig_from_dict(core, data), env), cli)

----------------------------------------------------------------------------
(* Factory lifecycle: the objects of the automation libraries              *)

\* bounds on the objects one run creates
MaxEngines == 2
MaxBrowsers == 2
MaxContexts == 2
MaxPages == 2
MaxDrivers == 2
\* consecutive calls of one operation are counted up to this
MaxStreak == 2
\* a run makes at most this many calls
MaxCalls == 4

\* no settings call has been made and no file is looked at
NoSettingsCall ==
    [op |-> "none", core_path |-> <<>>, data_path |-> <<>>, reload |-> FALSE,
     ret |-> 0, raised |-> FALSE, built |-> FALSE, first |-> 0,
     reloaded |-> FALSE, n |-> 0]

SettingsIdle ==
    /\ fs = {}
    /\ _settings_instance = 0
    /\ heap = <<>>
    /\ slast = NoSettingsCall

NoItem == [requested |-> {}, has_funcargs |-> TRUE, funcargs |-> << >>]
NoCapture == [fails |-> {}, has_video |-> FALSE, raised |-> FALSE,
              page |-> <<>>, context |-> <<>>, driver |-> <<>>]
NoResult == [op |-> "none", fault |-> "ok", raised |-> "none", ret |-> "none"]

\* no test item is being run
ReportFresh ==
    /\ item = NoItem
    /\ pending = <<>>
    /\ reports = <<>>
    /\ attached = <<>>
    /\ logged = <<>>
    /\ collections = 0
    /\ capture = NoCapture
    /\ result = NoResult

ReportIdle == rpc = "idle" /\ ReportFresh

NoThreads == <<>>
NoApi == [_last_response |-> <<>>, Authorization |-> <<>>, _token |-> <<>>,
          returned |-> <<>>, op |-> "init", arg |-> 0, ret |-> <<>>,
          raised |-> "none", n |-> 0]
NoRegistry == [browser |-> 0, mobile |-> 0, browsers |-> <<>>, mobiles |-> <<>>,
               op |-> "init", force_new |-> FALSE, prev |-> 0, ret |-> 0, n |-> 0]
NoScroll == [pc |-> "idle", max_scrolls |-> 0, i |-> 0, checks |-> <<>>,
             swipes |-> 0, raised |-> "none"]

\* nothing of the concurrency, API, singleton or scrolling models has run
ExtraIdle ==
    /\ threads = NoThreads
    /\ api = NoApi
    /\ registry = NoRegistry
    /\ scroll = NoScroll

NoWorld == [engines |-> <<>>, browsers |-> <<>>, ctxs |-> <<>>, pages |-> <<>>,
            drivers |-> <<>>, released |-> {}]

NoCall == [op |-> "init", ret |-> 0, raised |-> FALSE, log |-> <<>>, streak |-> 0,
           n |-> 0]

\* the state of a factory right after its construction
FactoryInit ==
    /\ _playwright = 0
    /\ _browser = 0
    /\ _contexts = <<>>
    /\ _pages = <<>>
    /\ _driver = 0
    /\ world = NoWorld
    /\ last = NoCall

\* the operations whose consecutive calls that return are counted
StreakOps == {"launch_browser", "close", "create_driver", "mobile_close"}

\* the record of a call
Call(op, ret, raised, log) ==
    [op |-> op, ret |-> ret, raised |-> raised, log |-> log, n |-> last.n + 1,
     streak |-> IF op \notin StreakOps \/ raised THEN 0
                ELSE IF last.op = op
                THEN (IF last.streak < MaxStreak THEN last.streak + 1 ELSE MaxStreak)
                ELSE 1]

\* Browser.is_connected()
is_connected(w, b) == w.browsers[b].state = "connected"

\* effects of a release that succeeds, with Playwright's cascade: closing a
\* browser closes its contexts, stopping the engine ends its browsers.  Pages
\* carry no status of their own: nothing in the factory reads it.
ContextClosed(w, c) == [w EXCEPT !.ctxs[c].open = FALSE]

BrowserGone(w, b, how) ==
    [w EXCEPT !.browsers[b].state = how,
              !.ctxs = [c \in DOMAIN w.ctxs |->
                          IF w.ctxs[c].browser = b
                          THEN [w.ctxs[c] EXCEPT !.open = FALSE] ELSE w.ctxs[c]]]

RECURSIVE BrowsersGone(_, _, _)
BrowsersGone(w, bs, how) ==
    IF bs = {} THEN w
    ELSE LET b == CHOOSE x \in bs : TRUE
         IN  BrowsersGone(BrowserGone(w, b, how), bs \ {b}, how)

EngineStopped(w, e) ==
    LET w1 == [w EXCEPT !.engines[e] = "stopped"]
    IN  BrowsersGone(w1, {b \in DOMAIN w.browsers :
                            w.browsers[b].engine = e
                            /\ w.browsers[b].state = "connected"}, "closed")

\* list.remove(x): drops the first occurrence
RECURSIVE Remove(_, _)
Remove(l, x) ==
    IF l = <<>> THEN <<>>
    ELSE IF Head(l) = x THEN Tail(l)
    ELSE <<Head(l)>> \o Remove(Tail(l), x)

InList(l, x) == \E i \in 1..Len(l) : l[i] = x

----------------------------------------------------------------------------
(* adapters/ui/browser_factory.py: BrowserFactory                           *)

\* the factory fields as one value
Factory == [pw |-> _playwright, br |-> _browser, ctxs |-> _contexts, pgs |-> _pages]

Outcome(f, w, ret, raised) == [f |-> f, w |-> w, ret |-> ret, raised |-> raised]

\* launch_browser without the "already launched" check
launch_browser_always(f, w) ==
    {Outcome(f, w, 0, TRUE)}
    \cup
    (IF Len(w.engines) < MaxEngines
     THEN LET e  == Len(w.engines) + 1
              w1 == [w EXCEPT !.engines = Append(@, "running")]
              f1 == [f EXCEPT !.pw = e]
              b  == Len(w.browsers) + 1
          IN  {Outcome(f1, w1, 0, TRUE)}
              \cup
              (IF Len(w.browsers) < MaxBrowsers
               THEN {Outcome([f1 EXCEPT !.br = b],
                             [w1 EXCEPT !.browsers =
                                 Append(@, [engine |-> e, state |-> "connected"])],
                             b, FALSE)}
               ELSE {})
     ELSE {})

\* launch_browser: every way the call can end
launch_browser(f, w) ==
    IF f.br # 0 /\ is_connected(w, f.br)
    THEN {Outcome(f, w, f.br, FALSE)}
    ELSE \* sync_playwright().start() raises
         {Outcome(f, w, 0, TRUE)}
         \cup
         (IF Len(w.engines) < MaxEngines
          THEN LET e  == Len(w.engines) + 1
                   w1 == [w EXCEPT !.engines = Append(@, "running")]
                   f1 == [f EXCEPT !.pw = e]
                   b  == Len(w.browsers) + 1
               IN  \* browser_launcher.launch() raises
                   {Outcome(f1, w1, 0, TRUE)}
                   \cup
                   (IF Len(w.browsers) < MaxBrowsers
                    THEN {Outcome([f1 EXCEPT !.br = b],
                                  [w1 EXCEPT !.browsers =
                                      Append(@, [engine |-> e, state |-> "connected"])],
                                  b, FALSE)}
                    ELSE {})
          ELSE {})

\* the part of create_context after the browser is known
NewContext(f, w, b, trace) ==
    \* browser.new_context() raises
    {Outcome(f, w, 0, TRUE)}
    \cup
    (IF is_connected(w, b) /\ Len(w.ctxs) < MaxContexts
     THEN LET c  == Len(w.ctxs) + 1
              w1 == [w EXCEPT !.ctxs = Append(@, [browser |-> b, open |-> TRUE,
                                                   dropped |-> "no",
                                                   returned |-> FALSE])]
              f1 == [f EXCEPT !.ctxs = Append(@, c)]
          IN  (IF trace
               THEN \* context.tracing.start() raises
                    {Outcome(f, w1, 0, TRUE)}
               ELSE {})
              \cup {Outcome(f1, w1, c, FALSE)}
     ELSE {})

\* create_context(browser): browser = 0 stands for None
create_context(f, w, browser, trace) ==
    IF browser = 0
    THEN UNION {IF o.raised THEN {o} ELSE NewContext(o.f, o.w, o.ret, trace) :
                  o \in launch_browser(f, w)}
    ELSE NewContext(f, w, browser, trace)

\* NewPage that returns the page without appending it to _pages
NewPage_untracked(f, w, c) ==
    {Outcome(f, w, 0, TRUE)}
    \cup
    (IF w.ctxs[c].open /\ Len(w.pages) < MaxPages
     THEN LET p  == Len(w.pages) + 1
              w1 == [w EXCEPT !.pages = Append(@, [ctx |-> c, dropped |-> "no",
                                                    returned |-> FALSE])]
          IN  {Outcome(f, w1, 0, TRUE), Outcome(f, w1, p, FALSE)}
     ELSE {})

\* the part of create_page after the context is known
NewPage(f, w, c) ==
    \* context.new_page() raises
    {Outcome(f, w, 0, TRUE)}
    \cup
    (IF w.ctxs[c].open /\ Len(w.pages) < MaxPages
     THEN LET p  == Len(w.pages) + 1
              w1 == [w EXCEPT !.pages = Append(@, [ctx |-> c, dropped |-> "no",
                                                    returned |-> FALSE])]
              f1 == [f EXCEPT !.pgs = Append(@, p)]
          IN  \* page.set_default_timeout() / set_default_navigation_timeout() raises
              {Outcome(f, w1, 0, TRUE), Outcome(f1, w1, p, FALSE)}
     ELSE {})

\* create_page(context): context = 0 stands for None
create_page(f, w, context, trace) ==
    IF context = 0
    THEN UNION {IF o.raised THEN {o} ELSE NewPage(o.f, o.w, o.ret) :
                  o \in create_context(f, w, 0, trace)}
    ELSE NewPage(f, w, context)

\* close_page that calls page.close() before removing the page
close_page_close_first(f, w, page, failing) ==
    LET gone == InList(f.pgs, page) /\ ~failing
        f1 == IF gone THEN [f EXCEPT !.pgs = Remove(@, page)] ELSE f
        w1 == [w EXCEPT !.pages[page].dropped = IF gone THEN "close_page" ELSE @]
    IN  Outcome(f1, w1, 0, FALSE)

\* close_page(page): failing = page.close() raises
close_page(f, w, page, failing) ==
    LET f1 == IF InList(f.pgs, page) THEN [f EXCEPT !.pgs = Remove(@, page)] ELSE f
        w1 == [w EXCEPT !.pages[page].dropped =
                           IF InList(f.pgs, page) THEN "close_page" ELSE @]
    IN  Outcome(f1, w1, 0, FALSE)

\* close_context(context): failing = context.close() raises
close_context(f, w, context, failing) ==
    LET f1 == IF InList(f.ctxs, context) THEN [f EXCEPT !.ctxs = Remove(@, context)]
              ELSE f
        w1 == [w EXCEPT !.ctxs[context].dropped =
                           IF InList(f.ctxs, context) THEN "close_context" ELSE @]
    IN  Outcome(f1, IF failing THEN w1 ELSE ContextClosed(w1, context), 0, FALSE)

\* one release step of close(): the event and the world after it
Event(kind, id, failing) == [kind |-> kind, id |-> id, ok |-> ~failing]

\* history: the primary handles (browser, driver) a close() has released so
\* far, whether or not the release step raised
WithReleased(w, log) ==
    [w EXCEPT !.released =
        @ \cup {<<log[i].kind, log[i].id>> :
                  i \in {j \in 1..Len(log) : log[j].kind \in {"browser", "driver"}}}]

RECURSIVE ClosePages(_, _, _, _)
ClosePages(st, l, i, fails) ==
    IF i > Len(l) THEN st
    ELSE LET p    == l[i]
             bad  == <<"page", p>> \in fails
             w1   == [st.w EXCEPT !.pages[p].dropped = "close"]
         IN  ClosePages([w   |-> w1,
                         log |-> Append(st.log, Event("page", p, bad))],
                        l, i + 1, fails)

RECURSIVE CloseContexts(_, _, _, _)
CloseContexts(st, l, i, fails) ==
    IF i > Len(l) THEN st
    ELSE LET c    == l[i]
             bad  == <<"context", c>> \in fails
             w1   == [st.w EXCEPT !.ctxs[c].dropped = "close"]
         IN  CloseContexts([w   |-> IF bad THEN w1 ELSE ContextClosed(w1, c),
                            log |-> Append(st.log, Event("context", c, bad))],
                           l, i + 1, fails)

CloseBrowser(st, b, fails) ==
    IF b = 0 THEN st
    ELSE LET bad == <<"browser", b>> \in fails
         IN  [w   |-> IF bad THEN st.w ELSE BrowserGone(st.w, b, "closed"),
              log |-> Append(st.log, Event("browser", b, bad))]

StopPlaywright(st, e, fails) ==
    IF e = 0 THEN st
    ELSE LET bad == <<"playwright", e>> \in fails
         IN  [w   |-> IF bad THEN st.w ELSE EngineStopped(st.w, e),
              log |-> Append(st.log, Event("playwright", e, bad))]

\* the release steps close() makes on factory f
ReleaseTargets(f) ==
    {<<"page", f.pgs[i]>> : i \in 1..Len(f.pgs)}
    \cup {<<"context", f.ctxs[i]>> : i \in 1..Len(f.ctxs)}
    \cup (IF f.br # 0 THEN {<<"browser", f.br>>} ELSE {})
    \cup (IF f.pw # 0 THEN {<<"playwright", f.pw>>} ELSE {})

\* close() that keeps the browser reference when browser.close() raises
close_keep_failed_browser(f, w, fails) ==
    LET s1 == ClosePages([w |-> w, log |-> <<>>], f.pgs, 1, fails)
        s2 == CloseContexts(s1, f.ctxs, 1, fails)
        s3 == CloseBrowser(s2, f.br, fails)
        s4 == StopPlaywright(s3, f.pw, fails)
    IN  [f |-> [pw |-> 0, br |-> IF <<"browser", f.br>> \in fails THEN f.br ELSE 0,
                ctxs |-> <<>>, pgs |-> <<>>],
         w |-> s4.w, log |-> s4.log, raised |-> FALSE]

\* close() that releases the contexts before the pages
close_contexts_first(f, w, fails) ==
    LET s1 == CloseContexts([w |-> w, log |-> <<>>], f.ctxs, 1, fails)
        s2 == ClosePages(s1, f.pgs, 1, fails)
        s3 == CloseBrowser(s2, f.br, fails)
        s4 == StopPlaywright(s3, f.pw, fails)
    IN  [f |-> [pw |-> 0, br |-> 0, ctxs |-> <<>>, pgs |-> <<>>],
         w |-> s4.w, log |-> s4.log, raised |-> FALSE]

\* close() with one try block around all the release steps: the first step
\* that raises ends the releases
close_one_guard(f, w, fails) ==
    LET s1 == ClosePages([w |-> w, log |-> <<>>], f.pgs, 1, fails)
        s2 == CloseContexts(s1, f.ctxs, 1, fails)
        s3 == CloseBrowser(s2, f.br, fails)
        s4 == StopPlaywright(s3, f.pw, fails)
        bad == {i \in 1..Len(s4.log) : ~s4.log[i].ok}
        cut == IF bad = {} THEN Len(s4.log)
               ELSE CHOOSE i \in bad : \A j \in bad : i <= j
    IN  [f |-> [pw |-> 0, br |-> 0, ctxs |-> <<>>, pgs |-> <<>>],
         w |-> s4.w, log |-> SubSeq(s4.log, 1, cut), raised |-> FALSE]

\* close(): fails = the release steps that raise
close(f, w, fails) ==
    LET s1 == ClosePages([w |-> w, log |-> <<>>], f.pgs, 1, fails)
        s2 == CloseContexts(s1, f.ctxs, 1, fails)
        s3 == CloseBrowser(s2, f.br, fails)
        s4 == StopPlaywright(s3, f.pw, fails)
    IN  [f |-> [pw |-> 0, br |-> 0, ctxs |-> <<>>, pgs |-> <<>>],
         w |-> s4.w, log |-> s4.log, raised |-> FALSE]

----------------------------------------------------------------------------
(* adapters/mobile/mobile_factory.py: MobileFactory                         *)

\* create_driver without the "already created" check
create_driver_always(d, w) ==
    {[d |-> d, w |-> w, ret |-> 0, raised |-> TRUE]}
    \cup
    (IF Len(w.drivers) < MaxDrivers
     THEN LET n  == Len(w.drivers) + 1
              w1 == [w EXCEPT !.drivers = Append(@, "active")]
          IN  {[d |-> n, w |-> w1, ret |-> 0, raised |-> TRUE],
               [d |-> n, w |-> w1, ret |-> n, raised |-> FALSE]}
     ELSE {})

\* create_driver: every way the call can end, as <<_driver, world, ret, raised>>
create_driver(d, w) ==
    IF d # 0
    THEN {[d |-> d, w |-> w, ret |-> d, raised |-> FALSE]}
    ELSE \* webdriver.Remote() raises
         {[d |-> d, w |-> w, ret |-> 0, raised |-> TRUE]}
         \cup
         (IF Len(w.drivers) < MaxDrivers
          THEN LET n  == Len(w.drivers) + 1
                   w1 == [w EXCEPT !.drivers = Append(@, "active")]
               IN  \* implicitly_wait() raises after the driver is stored
                   {[d |-> n, w |-> w1, ret |-> 0, raised |-> TRUE],
                    [d |-> n, w |-> w1, ret |-> n, raised |-> FALSE]}
          ELSE {})

\* get_driver
get_driver(d, w) ==
    IF d = 0 THEN create_driver(d, w)
    ELSE {[d |-> d, w |-> w, ret |-> d, raised |-> FALSE]}

\* MobileFactory.close(): failing = driver.quit() raises
mobile_close(d, w, failing) ==
    IF d # 0
    THEN [d |-> 0,
          w |-> IF failing THEN w ELSE [w EXCEPT !.drivers[d] = "quit"],
          log |-> <<Event("driver", d, failing)>>, raised |-> FALSE]
    ELSE [d |-> d, w |-> w, log |-> <<>>, raised |-> FALSE]

----------------------------------------------------------------------------
(* Configuration run: the files, the environment and the command line are  *)
(* set up, the fixture builds the CLI overrides, then the factory of the    *)
(* run is constructed and resolves its configuration.                       *)

\* a variable no factory recognises
UnknownEnvValues == [BROWSER_ARGS |-> {S_firefox}]
EnvValues == BrowserEnvValues @@ MobileEnvValues @@ UnknownEnvValues

\* the variables a run sets: those of its factory, one of the other factory
\* and the unrecognised one
RunEnvVars(r) ==
    IF r = "browser"
    THEN DOMAIN BrowserEnvValues \cup {"MOBILE_PLATFORM"} \cup DOMAIN UnknownEnvValues
    ELSE DOMAIN MobileEnvValues \cup {"BROWSER_TYPE"} \cup DOMAIN UnknownEnvValues

NoConfig == BrowserConfig_from_dict(EmptyDict)
NoSettings == BrowserConfig_from_yaml(EmptyDict)
NoMobileConfig == MobileConfig_from_dict(EmptyDict, EmptyDict)
NoOptions ==
    [browser_type |-> <<>>, headed |-> FALSE, slow_mo |-> <<>>,
     platform |-> <<>>, device_name |-> <<>>, app_path |-> <<>>, udid |-> <<>>,
     no_reset |-> FALSE]

RECURSIVE PutPath(_, _, _)
PutPath(d, path, v) ==
    IF Len(path) = 1 THEN Put(d, path[1], v)
    ELSE Put(d, path[1], PutPath(Get(d, path[1], EmptyDict), Tail(path), v))

RECURSIVE HasPath(_, _)
HasPath(d, path) ==
    /\ Has(d, path[1])
    /\ Len(path) > 1 => HasPath(d[path[1]], Tail(path))

Sub(d, k) == Get(d, k, EmptyDict)

\* number of entries supplied so far over the files, the environment and the CLI
Supplied ==
    Cardinality(DOMAIN file_config \ {"viewport"})
    + Cardinality(DOMAIN Sub(file_config, "viewport"))
    + Cardinality(DOMAIN Sub(core_config, "mobile"))
    + Cardinality(DOMAIN Sub(Sub(data_config, "mobile_app"), "android"))
    + Cardinality(DOMAIN Sub(Sub(data_config, "mobile_app"), "ios"))
    + Cardinality(DOMAIN environ)
    + Cardinality({k \in {"browser_type", "slow_mo", "platform", "device_name",
                          "app_path", "udid"} : options[k] # <<>>})
    + (IF options.headed THEN 1 ELSE 0)
    + (IF options.no_reset THEN 1 ELSE 0)
    + (IF Has(cli_overrides, "headless") THEN 1 ELSE 0)
    + (IF Has(mobile_overrides, "no_reset") /\ ~options.no_reset THEN 1 ELSE 0)

CInit ==
    /\ run \in {"browser", "mobile"}
    /\ pc = "start"
    /\ environ = EmptyDict
    /\ options = NoOptions
    /\ file_config = EmptyDict
    /\ cli_overrides = EmptyDict
    /\ caller_config = EmptyDict
    /\ config = NoConfig
    /\ settings_browser = NoSettings
    /\ core_config = EmptyDict
    /\ data_config = EmptyDict
    /\ mobile_overrides = EmptyDict
    /\ mobile_config = NoMobileConfig
    /\ FactoryInit
    /\ SettingsIdle
    /\ ReportIdle
    /\ ExtraIdle

\* the browser section of core_config.yml gets one more key
WriteFileKey ==
    /\ run = "browser" /\ pc = "start"
    /\ Supplied < MaxSupplied
    /\ \/ \E k \in DOMAIN FileValues \ DOMAIN file_config :
            \E v \in FileValues[k] : file_config' = Put(file_config, k, v)
       \/ \E k \in DOMAIN FileViewportValues \ DOMAIN Sub(file_config, "viewport") :
            \E v \in FileViewportValues[k] :
               file_config' = PutPath(file_config, <<"viewport", k>>, v)
    /\ caller_config' = file_config'
    /\ UNCHANGED xvars
    /\ UNCHANGED fvars
    /\ UNCHANGED <<run, pc, environ, options, cli_overrides, config,
                   settings_browser, core_config, data_config, mobile_overrides,
                   mobile_config>>

\* the mobile sections of core_config.yml / data_config.yml get one more key
WriteMobileFileKey ==
    /\ run = "mobile" /\ pc = "start"
    /\ Supplied < MaxSupplied
    /\ \E i \in 1..Len(MobileFileKeys) :
         LET e == MobileFileKeys[i]
         IN  \E v \in e.vals :
               \/ /\ e.cfg = "core" /\ ~HasPath(core_config, e.path)
                  /\ core_config' = PutPath(core_config, e.path, v)
                  /\ UNCHANGED data_config
               \/ /\ e.cfg = "data" /\ ~HasPath(data_config, e.path)
                  /\ data_config' = PutPath(data_config, e.path, v)
                  /\ UNCHANGED core_config
    /\ UNCHANGED xvars
    /\ UNCHANGED fvars
    /\ UNCHANGED <<run, pc, environ, options, file_config, cli_overrides,
                   caller_config, config, settings_browser, mobile_overrides,
                   mobile_config>>

\* the CI job exports one more environment variable
SetEnv ==
    /\ pc = "start"
    /\ Supplied < MaxSupplied
    /\ \E k \in RunEnvVars(run) \ DOMAIN environ :
          \E v \in EnvValues[k] : environ' = Put(environ, k, v)
    /\ UNCHANGED xvars
    /\ UNCHANGED fvars
    /\ UNCHANGED <<run, pc, options, file_config, cli_overrides, caller_config,
                   config, settings_browser, core_config, data_config,
                   mobile_overrides, mobile_config>>

\* one more option on the pytest command line
PassOption ==
    /\ pc = "start"
    /\ Supplied < MaxSupplied
    /\ \/ /\ run = "browser" /\ options.browser_type = <<>>
          /\ \E v \in BrowserTypeChoices :
                options' = [options EXCEPT !.browser_type = <<v>>]
       \/ /\ run = "browser" /\ ~options.headed
          /\ options' = [options EXCEPT !.headed = TRUE]
       \/ /\ run = "browser" /\ options.slow_mo = <<>>
          /\ \E v \in SlowMoChoices :
                options' = [options EXCEPT !.slow_mo = <<v>>]
       \/ /\ run = "mobile"
          /\ \E k \in DOMAIN MobileOptionValues :
               /\ options[k] = <<>>
               /\ \E v \in MobileOptionValues[k] :
                     options' = [options EXCEPT ![k] = <<v>>]
       \/ /\ run = "mobile" /\ ~options.no_reset
          /\ options' = [options EXCEPT !.no_reset = TRUE]
    /\ UNCHANGED xvars
    /\ UNCHANGED fvars
    /\ UNCHANGED <<run, pc, environ, file_config, cli_overrides, caller_config,
                   config, settings_browser, core_config, data_config,
                   mobile_overrides, mobile_config>>

\* the cli_browser_overrides fixture
CliBrowserOverrides ==
    /\ run = "browser" /\ pc = "start"
    /\ cli_overrides' = cli_browser_overrides(options)
    /\ pc' = "overrides"
    /\ UNCHANGED xvars
    /\ UNCHANGED fvars
    /\ UNCHANGED <<run, environ, options, file_config, caller_config, config,
                   settings_browser, core_config, data_config, mobile_overrides,
                   mobile_config>>

\* the cli_mobile_overrides fixture
CliMobileOverrides ==
    /\ run = "mobile" /\ pc = "start"
    /\ mobile_overrides' = cli_mobile_overrides(options)
    /\ pc' = "overrides"
    /\ UNCHANGED xvars
    /\ UNCHANGED fvars
    /\ UNCHANGED <<run, environ, options, file_config, cli_overrides,
                   caller_config, config, settings_browser, core_config,
                   data_config, mobile_config>>

\* a caller that builds the override dict itself adds an explicit "headless"
\* (BrowserFactory) or an explicit "no_reset" (MobileFactory)
DirectOverride ==
    /\ pc = "overrides"
    /\ Supplied < MaxSupplied
    /\ \/ /\ run = "browser" /\ ~Has(cli_overrides, "headless")
          /\ \E v \in BOOLEAN : cli_overrides' = Put(cli_overrides, "headless", v)
          /\ UNCHANGED mobile_overrides
       \/ /\ run = "mobile" /\ ~Has(mobile_overrides, "no_reset")
          /\ \E v \in BOOLEAN : mobile_overrides' = Put(mobile_overrides, "no_reset", v)
          /\ UNCHANGED cli_overrides
    /\ UNCHANGED xvars
    /\ UNCHANGED fvars
    /\ UNCHANGED <<run, pc, environ, options, file_config, caller_config, config,
                   settings_browser, core_config, data_config, mobile_config>>

\* BrowserFactory.__init__ (and Settings built from the same file section)
BrowserFactoryInit ==
    /\ run = "browser" /\ pc = "overrides"
    /\ LET b == _build_config(file_config, environ, cli_overrides)
       IN  /\ pc' = IF b.raised THEN "ValueError" ELSE "built"
           /\ config' = IF b.raised THEN config ELSE BrowserConfig_from_dict(b.merged)
           /\ caller_config' = b.caller
    /\ settings_browser' = BrowserConfig_from_yaml(file_config)
    /\ UNCHANGED xvars
    /\ UNCHANGED fvars
    /\ UNCHANGED <<run, environ, options, file_config, cli_overrides,
                   core_config, data_config, mobile_overrides, mobile_config>>

\* MobileFactory.__init__
MobileFactoryInit ==
    /\ run = "mobile" /\ pc = "overrides"
    /\ mobile_config' = mobile_build_config(core_config, data_config, environ,
                                            mobile_overrides)
    /\ pc' = "built"
    /\ UNCHANGED xvars
    /\ UNCHANGED fvars
    /\ UNCHANGED <<run, environ, options, file_config, cli_overrides,
                   caller_config, config, settings_browser, core_config,
                   data_config, mobile_overrides>>

CNext ==
    \/ WriteFileKey
    \/ WriteMobileFileKey
    \/ SetEnv
    \/ PassOption
    \/ CliBrowserOverrides
    \/ CliMobileOverrides
    \/ DirectOverride
    \/ BrowserFactoryInit
    \/ MobileFactoryInit

SpecConfig == CInit /\ [][CNext]_vars

----------------------------------------------------------------------------
(* Factory lifecycle run: a UI session uses one BrowserFactory, a mobile   *)
(* session one MobileFactory, from a single thread, one call at a time.    *)

Init ==
    /\ run \in {"ui", "mobile"}
    /\ pc = "built"
    /\ environ = EmptyDict
    /\ options = NoOptions
    /\ \E tr \in BOOLEAN : file_config = Put(EmptyDict, "trace_on_failure", tr)
    /\ cli_overrides = EmptyDict
    /\ caller_config = file_config
    /\ config = BrowserConfig_from_dict(
                    _build_config(file_config, environ, cli_overrides).merged)
    /\ settings_browser = NoSettings
    /\ core_config = EmptyDict
    /\ data_config = EmptyDict
    /\ mobile_overrides = EmptyDict
    /\ mobile_config = mobile_build_config(core_config, data_config, environ,
                                           mobile_overrides)
    /\ FactoryInit
    /\ SettingsIdle
    /\ ReportIdle
    /\ ExtraIdle

SetFactory(f) ==
    /\ _playwright' = f.pw
    /\ _browser' = f.br
    /\ _contexts' = f.ctxs
    /\ _pages' = f.pgs

LaunchBrowser ==
    /\ run = "ui" /\ last.n < MaxCalls
    /\ \E o \in launch_browser(Factory, world) :
          /\ SetFactory(o.f)
          /\ world' = o.w
          /\ last' = Call("launch_browser", o.ret, o.raised, <<>>)
    /\ UNCHANGED xvars
    /\ UNCHANGED <<cvars, _driver>>

CreateContext ==
    /\ run = "ui" /\ last.n < MaxCalls
    /\ \E b \in 0..Len(world.browsers) :
          \E o \in create_context(Factory, world, b, config.trace_on_failure) :
             /\ SetFactory(o.f)
             /\ world' = IF o.raised THEN o.w
                         ELSE [o.w EXCEPT !.ctxs[o.ret].returned = TRUE]
             /\ last' = Call("create_context", o.ret, o.raised, <<>>)
    /\ UNCHANGED xvars
    /\ UNCHANGED <<cvars, _driver>>

CreatePage ==
    /\ run = "ui" /\ last.n < MaxCalls
    /\ \E c \in 0..Len(world.ctxs) :
          \E o \in create_page(Factory, world, c, config.trace_on_failure) :
             /\ SetFactory(o.f)
             /\ world' = IF o.raised THEN o.w
                         ELSE [o.w EXCEPT !.pages[o.ret].returned = TRUE]
             /\ last' = Call("create_page", o.ret, o.raised, <<>>)
    /\ UNCHANGED xvars
    /\ UNCHANGED <<cvars, _driver>>

ClosePage ==
    /\ run = "ui" /\ last.n < MaxCalls
    /\ \E p \in 1..Len(world.pages) : \E failing \in BOOLEAN :
          LET o == close_page(Factory, world, p, failing)
          IN  /\ SetFactory(o.f)
              /\ world' = o.w
              /\ last' = Call("close_page", 0, o.raised,
                              <<Event("page", p, failing)>>)
    /\ UNCHANGED xvars
    /\ UNCHANGED <<cvars, _driver>>

CloseContext ==
    /\ run = "ui" /\ last.n < MaxCalls
    /\ \E c \in 1..Len(world.ctxs) : \E failing \in BOOLEAN :
          LET o == close_context(Factory, world, c, failing)
          IN  /\ SetFactory(o.f)
              /\ world' = o.w
              /\ last' = Call("close_context", 0, o.raised,
                              <<Event("context", c, failing)>>)
    /\ UNCHANGED xvars
    /\ UNCHANGED <<cvars, _driver>>

Close ==
    /\ run = "ui" /\ last.n < MaxCalls
    /\ \E fails \in SUBSET ReleaseTargets(Factory) :
          LET o == close(Factory, world, fails)
          IN  /\ SetFactory(o.f)
              /\ world' = WithReleased(o.w, o.log)
              /\ last' = Call("close", 0, o.raised, o.log)
    /\ UNCHANGED xvars
    /\ UNCHANGED <<cvars, _driver>>

\* the browser process dies or the connection to it is lost
BrowserDisconnect ==
    /\ run = "ui" /\ last.n < MaxCalls
    /\ \E b \in 1..Len(world.browsers) :
          /\ is_connected(world, b)
          /\ world' = BrowserGone(world, b, "disconnected")
    /\ last' = Call("disconnect", 0, FALSE, <<>>)
    /\ UNCHANGED xvars
    /\ UNCHANGED <<cvars, _playwright, _browser, _contexts, _pages, _driver>>

CreateDriver ==
    /\ run = "mobile" /\ last.n < MaxCalls
    /\ \E o \in create_driver(_driver, world) :
          /\ _driver' = o.d
          /\ world' = o.w
          /\ last' = Call("create_driver", o.ret, o.raised, <<>>)
    /\ UNCHANGED xvars
    /\ UNCHANGED <<cvars, _playwright, _browser, _contexts, _pages>>

GetDriver ==
    /\ run = "mobile" /\ last.n < MaxCalls
    /\ \E o \in get_driver(_driver, world) :
          /\ _driver' = o.d
          /\ world' = o.w
          /\ last' = Call("get_driver", o.ret, o.raised, <<>>)
    /\ UNCHANGED xvars
    /\ UNCHANGED <<cvars, _playwright, _browser, _contexts, _pages>>

MobileClose ==
    /\ run = "mobile" /\ last.n < MaxCalls
    /\ \E failing \in BOOLEAN :
          LET o == mobile_close(_driver, world, failing)
          IN  /\ _driver' = o.d
              /\ world' = WithReleased(o.w, o.log)
              /\ last' = Call("mobile_close", 0, o.raised, o.log)
    /\ UNCHANGED xvars
    /\ UNCHANGED <<cvars, _playwright, _browser, _contexts, _pages>>

Next ==
    \/ LaunchBrowser
    \/ CreateContext
    \/ CreatePage
    \/ ClosePage
    \/ CloseContext
    \/ Close
    \/ BrowserDisconnect
    \/ CreateDriver
    \/ GetDriver
    \/ MobileClose

Spec == Init /\ [][Next]_vars

----------------------------------------------------------------------------
(* configs/config.py: the configuration files                              *)
(* A path is the sequence of its components; "" is the empty sequence.     *)
(* Text that is not character-processed is a TLA+ string.                  *)

CoreName == "core_config.yml"
DataName == "data_config.yml"
\* Path(__file__).parent of configs/config.py
PackageDir == <<"pkg">>
\* the directories that exist
Dirs == {<<"ci">>, <<"configs">>, PackageDir}

\* at most this many configuration files exist in one session
MaxFiles == 2
\* a session makes at most this many get_settings / load_config calls
MaxSettingsCalls == 3

YamlDoc(d) == [parses |-> TRUE, doc |-> <<d>>]
\* what yaml.safe_load gives for each file that may exist: a mapping, None
\* for an empty file, or an error for text that is not YAML
FileDocs ==
    (<<CoreName>> :> YamlDoc([environment |-> "dev"]))
    @@ (<<"configs", CoreName>> :>
          YamlDoc([environment |-> "staging",
                   browser |-> [headless |-> FALSE, screenshot_on_failure |-> FALSE,
                                viewport |-> [width |-> 1280]]]))
    @@ (<<"pkg", CoreName>> :> [parses |-> TRUE, doc |-> <<>>])
    @@ (<<"ci", "core.yml">> :>
          YamlDoc([environment |-> "prod", allure |-> [clean_results |-> FALSE]]))
    @@ (<<"ci", CoreName>> :>
          YamlDoc([debug |-> TRUE, mobile |-> [no_reset |-> TRUE],
                   logging |-> [level |-> "DEBUG"]]))
    @@ (<<"ci", "bad.yml">> :> [parses |-> FALSE, doc |-> <<>>])
    @@ (<<"configs", DataName>> :>
          YamlDoc([ui |-> [base_url |-> "http://app"], timeouts |-> [default |-> 5]]))
    @@ (<<"ci", "data.yml">> :>
          YamlDoc([api |-> [version |-> "v2"],
                   mobile_app |-> [ios |-> [udid |-> "u1"]],
                   credentials |-> [valid_user |-> [username |-> "amy"]]]))

\* the (core_config_path, data_config_path) pairs callers pass in the model
PathArgs ==
    { [core |-> <<>>, data |-> <<>>],
      [core |-> << <<"ci", "core.yml">> >>, data |-> << <<"ci", "data.yml">> >>],
      [core |-> << <<"ci">> >>, data |-> << <<>> >>],
      [core |-> << <<"ci", "gone.yml">> >>, data |-> << <<"ci", "gone.yml">> >>],
      [core |-> << <<"ci", "bad.yml">> >>, data |-> <<>>] }

is_dir(files, path) == path \in Dirs
exists(files, path) == path \in files \/ path \in Dirs

Returned(v) == [raised |-> FALSE, val |-> v]
Raised == [raised |-> TRUE, val |-> << >>]

load_yaml_file(files, file_path) ==
    IF exists(files, file_path)
    THEN IF file_path \notin DOMAIN FileDocs THEN Raised
         ELSE LET y == FileDocs[file_path]
              IN  IF ~y.parses THEN Raised
                  ELSE Returned(IF y.doc = <<>> \/ DOMAIN y.doc[1] = {}
                                THEN EmptyDict ELSE y.doc[1])
    ELSE Returned(EmptyDict)

\* find_config_file that searches the common locations when the given path
\* does not exist
find_config_file_fallback(files, filename, config_path) ==
    LET possible_paths == << <<filename>>, <<"configs", filename>>,
                             Append(PackageDir, filename) >>
        hits == {i \in 1..Len(possible_paths) : exists(files, possible_paths[i])}
        found == IF hits = {} THEN <<>>
                 ELSE << possible_paths[CHOOSE i \in hits : \A j \in hits : i <= j] >>
    IN  IF config_path # <<>> /\ config_path[1] # <<>>
        THEN LET path == IF is_dir(files, config_path[1])
                         THEN Append(config_path[1], filename)
                         ELSE config_path[1]
             IN  IF exists(files, path) THEN <<path>> ELSE found
        ELSE found

\* find_config_file: None (<<>>) or the path found
find_config_file(files, filename, config_path) ==
    IF config_path # <<>> /\ config_path[1] # <<>>
    THEN LET path == IF is_dir(files, config_path[1])
                     THEN Append(config_path[1], filename)
                     ELSE config_path[1]
         IN  IF exists(files, path) THEN <<path>> ELSE <<>>
    ELSE LET possible_paths == << <<filename>>, <<"configs", filename>>,
                                  Append(PackageDir, filename) >>
             hits == {i \in 1..Len(possible_paths) :
                         exists(files, possible_paths[i])}
         IN  IF hits = {} THEN <<>>
             ELSE << possible_paths[CHOOSE i \in hits : \A j \in hits : i <= j] >>

load_configs(files, core_config_path, data_config_path) ==
    LET core_path == find_config_file(files, CoreName, core_config_path)
        core_config_ == IF core_path # <<>> THEN load_yaml_file(files, core_path[1])
                        ELSE Returned(EmptyDict)
        data_path == find_config_file(files, DataName, data_config_path)
        data_config_ == IF data_path # <<>> THEN load_yaml_file(files, data_path[1])
                        ELSE Returned(EmptyDict)
    IN  IF core_config_.raised \/ data_config_.raised THEN Raised
        ELSE Returned([core |-> core_config_.val, data |-> data_config_.val])

----------------------------------------------------------------------------
(* configs/config.py: the pydantic models; X_cls is X() with the Field     *)
(* defaults, X_from_yaml the classmethod                                    *)

BrowserConfig_cls ==
    [type |-> S_chromium, headless |-> TRUE, slow_mo |-> 0, timeout |-> 30000,
     viewport_width |-> 1920, viewport_height |-> 1080,
     screenshot_on_failure |-> TRUE, video_on_failure |-> FALSE,
     trace_on_failure |-> TRUE]

MobileFrameworkConfig_cls ==
    [appium_server |-> "http://localhost:4723", automation_name |-> "UiAutomator2",
     new_command_timeout |-> 300, no_reset |-> FALSE, full_reset |-> FALSE]
MobileFrameworkConfig_from_yaml(data) ==
    IF DOMAIN data = {} THEN MobileFrameworkConfig_cls
    ELSE [appium_server       |-> Get(data, "appium_server", "http://localhost:4723"),
          automation_name     |-> Get(data, "automation_name", "UiAutomator2"),
          new_command_timeout |-> Get(data, "new_command_timeout", 300),
          no_reset            |-> Get(data, "no_reset", FALSE),
          full_reset          |-> Get(data, "full_reset", FALSE)]

AllureConfig_cls ==
    [results_dir |-> "reports/allure-results", report_dir |-> "reports/allure-report",
     clean_results |-> TRUE]
AllureConfig_from_yaml(data) ==
    IF DOMAIN data = {} THEN AllureConfig_cls
    ELSE [results_dir   |-> Get(data, "results_dir", "reports/allure-results"),
          report_dir    |-> Get(data, "report_dir", "reports/allure-report"),
          clean_results |-> Get(data, "clean_results", TRUE)]

\* the format field is never read from the file
LoggingConfig_cls ==
    [level |-> "INFO", format |-> "default", file_path |-> <<"reports/logs/test.log">>,
     rotation |-> "10 MB", retention |-> "1 week"]
LoggingConfig_from_yaml(data) ==
    IF DOMAIN data = {} THEN LoggingConfig_cls
    ELSE [level     |-> Get(data, "level", "INFO"),
          format    |-> "default",
          file_path |-> Get(data, "file_path", <<"reports/logs/test.log">>),
          rotation  |-> Get(data, "rotation", "10 MB"),
          retention |-> Get(data, "retention", "1 week")]

CoreConfig_cls ==
    [environment |-> "local", debug |-> FALSE, browser |-> BrowserConfig_cls,
     mobile |-> MobileFrameworkConfig_cls, allure |-> AllureConfig_cls,
     logging |-> LoggingConfig_cls]
CoreConfig_from_yaml(data) ==
    IF DOMAIN data = {} THEN CoreConfig_cls
    ELSE [environment |-> Get(data, "environment", "local"),
          debug       |-> Get(data, "debug", FALSE),
          browser     |-> BrowserConfig_from_yaml(Get(data, "browser", EmptyDict)),
          mobile      |-> MobileFrameworkConfig_from_yaml(Get(data, "mobile", EmptyDict)),
          allure      |-> AllureConfig_from_yaml(Get(data, "allure", EmptyDict)),
          logging     |-> LoggingConfig_from_yaml(Get(data, "logging", EmptyDict))]

UIDataConfig_cls ==
    [base_url |-> "http://localhost:3000", login_url |-> "/login",
     dashboard_url |-> "/dashboard"]
UIDataConfig_from_yaml(data) ==
    IF DOMAIN data = {} THEN UIDataConfig_cls
    ELSE [base_url      |-> Get(data, "base_url", "http://localhost:3000"),
          login_url     |-> Get(data, "login_url", "/login"),
          dashboard_url |-> Get(data, "dashboard_url", "/dashboard")]

APIDataConfig_cls == [base_url |-> "http://localhost:8000/api", version |-> "v1"]
APIDataConfig_from_yaml(data) ==
    IF DOMAIN data = {} THEN APIDataConfig_cls
    ELSE [base_url |-> Get(data, "base_url", "http://localhost:8000/api"),
          version  |-> Get(data, "version", "v1")]

TimeoutsConfig_cls ==
    [default |-> 30, page_load |-> 60, element_wait |-> 10, api_timeout |-> 30,
     implicit_wait |-> 10]
TimeoutsConfig_from_yaml(data) ==
    IF DOMAIN data = {} THEN TimeoutsConfig_cls
    ELSE [default       |-> Get(data, "default", 30),
          page_load     |-> Get(data, "page_load", 60),
          element_wait  |-> Get(data, "element_wait", 10),
          api_timeout   |-> Get(data, "api_timeout", 30),
          implicit_wait |-> Get(data, "implicit_wait", 10)]

UserCredentials_cls == [username |-> "", password |-> "", email |-> ""]
UserCredentials_from_yaml(data) ==
    IF DOMAIN data = {} THEN UserCredentials_cls
    ELSE [username |-> Get(data, "username", ""),
          password |-> Get(data, "password", ""),
          email    |-> Get(data, "email", "")]

CredentialsConfig_cls ==
    [valid_user |-> UserCredentials_cls, admin_user |-> UserCredentials_cls,
     invalid_user |-> UserCredentials_cls]
CredentialsConfig_from_yaml(data) ==
    IF DOMAIN data = {} THEN CredentialsConfig_cls
    ELSE [valid_user   |-> UserCredentials_from_yaml(Get(data, "valid_user", EmptyDict)),
          admin_user   |-> UserCredentials_from_yaml(Get(data, "admin_user", EmptyDict)),
          invalid_user |-> UserCredentials_from_yaml(Get(data, "invalid_user", EmptyDict))]

\* data.get(key) of an Optional[str] field: None when the key is absent
GetOptional(data, k) == IF Has(data, k) THEN <<data[k]>> ELSE <<>>

AndroidAppConfig_cls ==
    [platform |-> "android", platform_version |-> "13",
     device_name |-> "emulator-5554", app_path |-> <<>>, app_package |-> <<>>,
     app_activity |-> <<>>]
AndroidAppConfig_from_yaml(data) ==
    IF DOMAIN data = {} THEN AndroidAppConfig_cls
    ELSE [platform         |-> Get(data, "platform", "android"),
          platform_version |-> Get(data, "platform_version", "13"),
          device_name      |-> Get(data, "device_name", "emulator-5554"),
          app_path         |-> GetOptional(data, "app_path"),
          app_package      |-> GetOptional(data, "app_package"),
          app_activity     |-> GetOptional(data, "app_activity")]

IOSAppConfig_cls ==
    [platform |-> "ios", platform_version |-> "16.0", device_name |-> "iPhone 14",
     app_path |-> <<>>, bundle_id |-> <<>>, udid |-> <<>>]
IOSAppConfig_from_yaml(data) ==
    IF DOMAIN data = {} THEN IOSAppConfig_cls
    ELSE [platform         |-> Get(data, "platform", "ios"),
          platform_version |-> Get(data, "platform_version", "16.0"),
          device_name      |-> Get(data, "device_name", "iPhone 14"),
          app_path         |-> GetOptional(data, "app_path"),
          bundle_id        |-> GetOptional(data, "bundle_id"),
          udid             |-> GetOptional(data, "udid")]

MobileAppConfig_cls == [android |-> AndroidAppConfig_cls, ios |-> IOSAppConfig_cls]
MobileAppConfig_from_yaml(data) ==
    IF DOMAIN data = {} THEN MobileAppConfig_cls
    ELSE [android |-> AndroidAppConfig_from_yaml(Get(data, "android", EmptyDict)),
          ios     |-> IOSAppConfig_from_yaml(Get(data, "ios", EmptyDict))]

DataConfig_cls ==
    [ui |-> UIDataConfig_cls, api |-> APIDataConfig_cls,
     timeouts |-> TimeoutsConfig_cls, credentials |-> CredentialsConfig_cls,
     mobile_app |-> MobileAppConfig_cls, endpoints |-> EmptyDict,
     test_data |-> EmptyDict]
DataConfig_from_yaml(data) ==
    IF DOMAIN data = {} THEN DataConfig_cls
    ELSE [ui          |-> UIDataConfig_from_yaml(Get(data, "ui", EmptyDict)),
          api         |-> APIDataConfig_from_yaml(Get(data, "api", EmptyDict)),
          timeouts    |-> TimeoutsConfig_from_yaml(Get(data, "timeouts", EmptyDict)),
          credentials |-> CredentialsConfig_from_yaml(Get(data, "credentials", EmptyDict)),
          mobile_app  |-> MobileAppConfig_from_yaml(Get(data, "mobile_app", EmptyDict)),
          endpoints   |-> Get(data, "endpoints", EmptyDict),
          test_data   |-> Get(data, "test_data", EmptyDict)]

\* Settings.from_yaml
Settings_from_yaml(files, core_config_path, data_config_path) ==
    LET configs == load_configs(files, core_config_path, data_config_path)
    IN  IF configs.raised THEN Raised
        ELSE Returned([core |-> CoreConfig_from_yaml(configs.val.core),
                       data |-> DataConfig_from_yaml(configs.val.data)])

----------------------------------------------------------------------------
(* configs/config.py: get_settings / load_config. A Settings object is its *)
(* index in heap; inst is the module global _settings_instance.            *)

SettingsOutcome(inst, hp, ret, raised, built) ==
    [inst |-> inst, heap |-> hp, ret |-> ret, raised |-> raised, built |-> built]

\* get_settings that also rebuilds when a config path is passed
get_settings_rebuild_for_paths(files, inst, hp, core_config_path, data_config_path, reload) ==
    IF inst = 0 \/ reload \/ core_config_path # <<>>
    THEN LET s == Settings_from_yaml(files, core_config_path, data_config_path)
         IN  IF s.raised THEN SettingsOutcome(inst, hp, 0, TRUE, FALSE)
             ELSE SettingsOutcome(Len(hp) + 1, Append(hp, s.val), Len(hp) + 1,
                                  FALSE, TRUE)
    ELSE SettingsOutcome(inst, hp, inst, FALSE, FALSE)

get_settings(files, inst, hp, core_config_path, data_config_path, reload) ==
    IF inst = 0 \/ reload
    THEN LET s == Settings_from_yaml(files, core_config_path, data_config_path)
         IN  IF s.raised THEN SettingsOutcome(inst, hp, 0, TRUE, FALSE)
             ELSE SettingsOutcome(Len(hp) + 1, Append(hp, s.val), Len(hp) + 1,
                                  FALSE, TRUE)
    ELSE SettingsOutcome(inst, hp, inst, FALSE, FALSE)

load_config(files, inst, hp, core_config_path, data_config_path) ==
    LET s == Settings_from_yaml(files, core_config_path, data_config_path)
    IN  IF s.raised THEN SettingsOutcome(inst, hp, 0, TRUE, FALSE)
        ELSE SettingsOutcome(inst, Append(hp, s.val), Len(hp) + 1, FALSE, TRUE)

----------------------------------------------------------------------------
(* Settings run: the configuration files are put in place, then the        *)
(* session calls get_settings / load_config.                                *)

\* the variables of the configuration run, unused
ConfigIdle(r) ==
    /\ run = r
    /\ pc = "built"
    /\ environ = EmptyDict
    /\ options = NoOptions
    /\ file_config = EmptyDict
    /\ cli_overrides = EmptyDict
    /\ caller_config = EmptyDict
    /\ config = NoConfig
    /\ settings_browser = NoSettings
    /\ core_config = EmptyDict
    /\ data_config = EmptyDict
    /\ mobile_overrides = EmptyDict
    /\ mobile_config = NoMobileConfig

SInit ==
    /\ ConfigIdle("settings")
    /\ FactoryInit
    /\ SettingsIdle
    /\ ReportIdle
    /\ ExtraIdle

\* a configuration file is put in place before the session starts
CreateFile ==
    /\ slast.n = 0
    /\ Cardinality(fs) < MaxFiles
    /\ \E p \in DOMAIN FileDocs \ fs : fs' = fs \cup {p}
    /\ UNCHANGED <<_settings_instance, heap, slast>>
    /\ UNCHANGED <<cvars, fvars, rvars, yvars>>

SettingsCall(op, a, reload, o) ==
    [op |-> op, core_path |-> a.core, data_path |-> a.data, reload |-> reload,
     ret |-> o.ret, raised |-> o.raised, built |-> o.built,
     first |-> IF slast.first = 0 /\ op = "get_settings" THEN o.ret ELSE slast.first,
     reloaded |-> slast.reloaded \/ (op = "get_settings" /\ slast.first # 0 /\ o.built),
     n |-> slast.n + 1]

GetSettings ==
    /\ slast.n < MaxSettingsCalls
    /\ \E a \in PathArgs, reload \in BOOLEAN :
          LET o == get_settings(fs, _settings_instance, heap, a.core, a.data, reload)
          IN  /\ _settings_instance' = o.inst
              /\ heap' = o.heap
              /\ slast' = SettingsCall("get_settings", a, reload, o)
    /\ UNCHANGED fs
    /\ UNCHANGED <<cvars, fvars, rvars, yvars>>

LoadConfig ==
    /\ slast.n < MaxSettingsCalls
    /\ \E a \in PathArgs :
          LET o == load_config(fs, _settings_instance, heap, a.core, a.data)
          IN  /\ _settings_instance' = o.inst
              /\ heap' = o.heap
              /\ slast' = SettingsCall("load_config", a, FALSE, o)
    /\ UNCHANGED fs
    /\ UNCHANGED <<cvars, fvars, rvars, yvars>>

SNext ==
    \/ CreateFile
    \/ GetSettings
    \/ LoadConfig

SpecSettings == SInit /\ [][SNext]_vars

----------------------------------------------------------------------------
(* conftest.py: the failure hook. An allure.attach call is a record of     *)
(* attached, a logger.warning call a record of logged; "at" is the         *)
(* position of the capture among the captures attempted so far.            *)

\* the capture steps of the hook, as (handle, kind)
CStep(handle, kind) == [handle |-> handle, kind |-> kind]

PageSteps == {CStep("page", k) : k \in {"screenshot", "url", "source", "trace", "video"}}
DriverSteps == {CStep("driver", k) : k \in {"screenshot", "source", "device"}}
CaptureSteps == PageSteps \cup DriverSteps

\* how many capture steps raise at one collection
MaxFailing == 1

\* page, context and driver are the local variables of the two collectors
HookState(att, lg) ==
    [attached |-> att, logged |-> lg, page |-> <<>>, context |-> <<>>,
     driver |-> <<>>]

\* allure.attach(content, name=..., attachment_type=...)
Attach(st, handle, kind, name, type) ==
    [st EXCEPT !.attached =
        Append(@, [handle |-> handle, kind |-> kind, name |-> name, type |-> type,
                   at |-> Len(st.attached) + Len(st.logged) + 1])]

\* logger.warning("Failed to capture ...") in an except branch
Warn(st, handle, kind) ==
    [st EXCEPT !.logged =
        Append(@, [handle |-> handle, kind |-> kind,
                   at |-> Len(st.attached) + Len(st.logged) + 1])]

\* try: <capture>; allure.attach(...)  except Exception: logger.warning(...)
TryCapture(st, handle, kind, name, type, fails) ==
    IF CStep(handle, kind) \in fails THEN Warn(st, handle, kind)
    ELSE Attach(st, handle, kind, name, type)

\* step 5: nothing is attached when the page has no video
TryVideo(st, has_video, fails) ==
    IF CStep("page", "video") \in fails THEN Warn(st, "page", "video")
    ELSE IF has_video THEN Attach(st, "page", "video", "Video", "video/webm")
    ELSE st

\* the page lookup with the two slots tried in the other order
FoundPage_ui_actions_first(funcargs) ==
    IF Has(funcargs, "ui_actions") THEN <<funcargs["ui_actions"].page>>
    ELSE IF Has(funcargs, "page") THEN <<funcargs["page"]>>
    ELSE <<>>

\* the page the hook finds: funcargs["page"], else funcargs["ui_actions"].page
FoundPage(funcargs) ==
    IF Has(funcargs, "page") THEN <<funcargs["page"]>>
    ELSE IF Has(funcargs, "ui_actions") THEN <<funcargs["ui_actions"].page>>
    ELSE <<>>

\* the context the hook finds: funcargs["context"], else page.context
FoundContext(funcargs) ==
    IF Has(funcargs, "context") THEN <<funcargs["context"]>>
    ELSE IF FoundPage(funcargs) # <<>> THEN <<FoundPage(funcargs)[1].context>>
    ELSE <<>>

\* the driver the hook finds: funcargs["appium_driver"], else mobile_actions.driver
FoundDriver(funcargs) ==
    IF Has(funcargs, "appium_driver") THEN <<funcargs["appium_driver"]>>
    ELSE IF Has(funcargs, "mobile_actions") THEN <<funcargs["mobile_actions"].driver>>
    ELSE <<>>

\* the handles the collectors bind before their captures
BindPage(funcargs, st) ==
    [st EXCEPT !.page = FoundPage(funcargs), !.context = FoundContext(funcargs)]

BindDriver(funcargs, st) == [st EXCEPT !.driver = FoundDriver(funcargs)]

\* _attach_playwright_artifacts with "if page is None: return" only around
\* the page captures: a context alone gets its trace attached
_attach_playwright_artifacts_trace_without_page(funcargs, cap, st) ==
    LET page == FoundPage(funcargs)
        s1 == IF page = <<>> THEN st
              ELSE TryCapture(st, "page", "screenshot", "Screenshot", "PNG", cap.fails)
        s2 == IF page = <<>> THEN s1
              ELSE TryCapture(s1, "page", "url", "Page URL", "TEXT", cap.fails)
        s3 == IF page = <<>> THEN s2
              ELSE TryCapture(s2, "page", "source", "Page Source", "HTML", cap.fails)
        s4 == IF FoundContext(funcargs) # <<>>
              THEN TryCapture(s3, "page", "trace", "Trace", "application/zip", cap.fails)
              ELSE s3
    IN  IF page = <<>> THEN s4 ELSE TryVideo(s4, cap.has_video, cap.fails)

\* _attach_playwright_artifacts with one try around all five captures
_attach_playwright_artifacts_one_try(funcargs, cap, st) ==
    LET Order == <<"screenshot", "url", "source", "trace", "video">>
        Failing == {i \in 1..5 : CStep("page", Order[i]) \in cap.fails}
        stop == IF Failing = {} THEN 6
                ELSE CHOOSE i \in Failing : \A j \in Failing : i <= j
        s1 == IF stop > 1
              THEN Attach(st, "page", "screenshot", "Screenshot", "PNG") ELSE st
        s2 == IF stop > 2 THEN Attach(s1, "page", "url", "Page URL", "TEXT") ELSE s1
        s3 == IF stop > 3 THEN Attach(s2, "page", "source", "Page Source", "HTML")
              ELSE s2
        s4 == IF stop > 4 /\ FoundContext(funcargs) # <<>>
              THEN Attach(s3, "page", "trace", "Trace", "application/zip") ELSE s3
        s5 == IF stop > 5 /\ cap.has_video
              THEN Attach(s4, "page", "video", "Video", "video/webm") ELSE s4
    IN  IF FoundPage(funcargs) = <<>> THEN st
        ELSE IF stop <= 5 THEN Warn(s5, "page", Order[stop]) ELSE s5

\* _attach_playwright_artifacts(item, test_name)
_attach_playwright_artifacts(funcargs, cap, st) ==
    IF FoundPage(funcargs) = <<>> THEN BindPage(funcargs, st)
    ELSE LET s1 == TryCapture(BindPage(funcargs, st), "page", "screenshot",
                              "Screenshot", "PNG", cap.fails)
             s2 == TryCapture(s1, "page", "url", "Page URL", "TEXT", cap.fails)
             s3 == TryCapture(s2, "page", "source", "Page Source", "HTML", cap.fails)
             s4 == IF FoundContext(funcargs) # <<>>
                   THEN TryCapture(s3, "page", "trace", "Trace", "application/zip",
                                   cap.fails)
                   ELSE s3
         IN  TryVideo(s4, cap.has_video, cap.fails)

\* _attach_appium_artifacts that dumps the view source before the screenshot
_attach_appium_artifacts_source_first(funcargs, cap, st) ==
    IF FoundDriver(funcargs) = <<>> THEN st
    ELSE LET s1 == TryCapture(st, "driver", "source", "Page Source (XML)", "XML",
                              cap.fails)
             s2 == TryCapture(s1, "driver", "screenshot", "Screenshot", "PNG",
                              cap.fails)
         IN  TryCapture(s2, "driver", "device", "Device Info", "JSON", cap.fails)

\* _attach_appium_artifacts(item, test_name)
_attach_appium_artifacts(funcargs, cap, st) ==
    IF FoundDriver(funcargs) = <<>> THEN st
    ELSE LET s1 == TryCapture(BindDriver(funcargs, st), "driver", "screenshot",
                              "Screenshot", "PNG", cap.fails)
             s2 == TryCapture(s1, "driver", "source", "Page Source (XML)", "XML",
                              cap.fails)
         IN  TryCapture(s2, "driver", "device", "Device Info", "JSON", cap.fails)

\* the capture steps the hook reaches for the handles of funcargs
AppliedSteps(funcargs) ==
    (IF FoundPage(funcargs) = <<>> THEN {}
     ELSE {s \in PageSteps : s.kind = "trace" => FoundContext(funcargs) # <<>>})
    \cup (IF FoundDriver(funcargs) = <<>> THEN {} ELSE DriverSteps)

HookOutcome(inst, hp, st, collected, raised) ==
    [inst |-> inst, heap |-> hp, st |-> st, collected |-> collected, raised |-> raised]

\* pytest_runtest_makereport, lines 497-504: o is how get_settings ended
attach_on_failure(o, it, cap, st) ==
    IF o.raised THEN HookOutcome(o.inst, o.heap, st, FALSE, TRUE)
    ELSE IF o.heap[o.ret].core.browser.screenshot_on_failure /\ it.has_funcargs
    THEN HookOutcome(o.inst, o.heap,
            _attach_appium_artifacts(it.funcargs, cap,
                _attach_playwright_artifacts(it.funcargs, cap, st)),
            TRUE, FALSE)
    ELSE HookOutcome(o.inst, o.heap, st, FALSE, FALSE)

\* pytest_runtest_makereport that collects for a failed report of any phase
pytest_runtest_makereport_any_phase(files, inst, hp, it, report, cap, st) ==
    IF report.failed
    THEN attach_on_failure(get_settings(files, inst, hp, <<>>, <<>>, FALSE), it, cap, st)
    ELSE HookOutcome(inst, hp, st, FALSE, FALSE)

\* pytest_runtest_makereport(item, call), the part after the yield;
\* CORE_CONFIG_PATH and DATA_CONFIG_PATH are not set in the environment
pytest_runtest_makereport(files, inst, hp, it, report, cap, st) ==
    IF report.when = "call" /\ report.failed
    THEN attach_on_failure(get_settings(files, inst, hp, <<>>, <<>>, FALSE), it, cap, st)
    ELSE HookOutcome(inst, hp, st, FALSE, FALSE)

----------------------------------------------------------------------------
(* The adapter operations a test body calls. fault is how the call into    *)
(* the automation / HTTP library ends: "ok", "timeout" (PlaywrightTimeout, *)
(* selenium TimeoutException, requests Timeout), "error" (any other        *)
(* exception) or, for an HTTP call, "status" (a response that is not 200). *)

Faults == {"ok", "timeout", "error"}
ApiFaults == Faults \cup {"status"}

Ret(v) == [raised |-> "none", ret |-> v]
Raise(e) == [raised |-> e, ret |-> "none"]

\* PlaywrightUIActions.click that catches the library's exceptions
click_swallow(fault) == Ret("None")

\* PlaywrightUIActions.click
click(fault) == IF fault = "ok" THEN Ret("None") ELSE Raise(fault)

\* PlaywrightUIActions.fill
fill(fault) == IF fault = "ok" THEN Ret("None") ELSE Raise(fault)

\* PlaywrightUIActions.is_visible: except PlaywrightTimeout: return False
is_visible(fault) ==
    IF fault = "ok" THEN Ret("True")
    ELSE IF fault = "timeout" THEN Ret("False")
    ELSE Raise(fault)

\* PlaywrightUIActions.wait_for_element
wait_for_element(fault) == IF fault = "ok" THEN Ret("None") ELSE Raise(fault)

\* AppiumMobileActions.tap
tap(fault) == IF fault = "ok" THEN Ret("None") ELSE Raise(fault)

\* AppiumMobileActions.wait_for_element
mobile_wait_for_element(fault) == IF fault = "ok" THEN Ret("None") ELSE Raise(fault)

\* AppiumMobileActions.hide_keyboard: except Exception: logger.warning(...)
hide_keyboard(fault) == Ret("None")

\* APIClient.get_current_user: api.get, assert_status_code(200), response.json()
get_current_user(fault) ==
    IF fault = "ok" THEN Ret("json")
    ELSE IF fault = "status" THEN Raise("AssertionError")
    ELSE Raise(fault)

\* APIClient.health_check: except Exception: return False
health_check(fault) == IF fault = "ok" THEN Ret("True") ELSE Ret("False")

\* the operations reachable through each fixture value
UiOps == {"click", "fill", "is_visible", "wait_for_element"}
MobileOps == {"tap", "mobile_wait_for_element", "hide_keyboard"}
ApiOps == {"get_current_user", "health_check"}

OpFaults(op) == IF op \in ApiOps THEN ApiFaults ELSE Faults

AdapterCall(op, fault) ==
    CASE op = "click" -> click(fault)
      [] op = "fill" -> fill(fault)
      [] op = "is_visible" -> is_visible(fault)
      [] op = "wait_for_element" -> wait_for_element(fault)
      [] op = "tap" -> tap(fault)
      [] op = "mobile_wait_for_element" -> mobile_wait_for_element(fault)
      [] op = "hide_keyboard" -> hide_keyboard(fault)
      [] op = "get_current_user" -> get_current_user(fault)
      [] op = "health_check" -> health_check(fault)

----------------------------------------------------------------------------
(* conftest.py: the fixtures. A fixture value is what the fixture returns  *)
(* or yields: a page is [id, context], ui_actions is [page],               *)
(* mobile_actions is [driver], a browser / context / driver is its id.     *)

\* the fixtures each fixture takes as arguments
Needs(name) ==
    CASE name = "api_client" -> {"test_config"}
      [] name = "browser_factory" -> {"test_config"}
      [] name = "browser" -> {"browser_factory"}
      [] name = "context" -> {"browser_factory", "browser"}
      [] name = "page" -> {"browser_factory", "context"}
      [] name = "ui_actions" -> {"page"}
      [] name = "mobile_factory" -> {"test_config"}
      [] name = "appium_driver" -> {"mobile_factory"}
      [] name = "mobile_actions" -> {"appium_driver"}
      [] OTHER -> {}

\* the fixture closure of the requested names
RECURSIVE Closure(_)
Closure(names) ==
    LET more == names \cup UNION {Needs(n) : n \in names}
    IN  IF more = names THEN names ELSE Closure(more)

\* an order in which every fixture comes after the fixtures it takes
FixtureOrder ==
    <<"test_config", "api_client", "browser_factory", "browser", "context", "page",
      "ui_actions", "mobile_factory", "appium_driver", "mobile_actions">>

\* the fixture sets the tests of the model request
ItemKinds ==
    { {}, {"api_client"}, {"context"}, {"page"}, {"ui_actions"},
      {"appium_driver"}, {"mobile_actions"}, {"ui_actions", "mobile_actions"} }

\* browser_factory: the dict built from test_config.core.browser
browser_config(settings) ==
    LET b == settings.core.browser
    IN  [type |-> b.type, headless |-> b.headless, slow_mo |-> b.slow_mo,
         timeout |-> b.timeout,
         viewport |-> [width |-> b.viewport_width, height |-> b.viewport_height],
         screenshot_on_failure |-> b.screenshot_on_failure,
         video_on_failure |-> b.video_on_failure,
         trace_on_failure |-> b.trace_on_failure]

\* mobile_factory: the core dict built from test_config
mobile_core_config(settings) ==
    LET m == settings.core.mobile
    IN  [mobile |-> [appium_server |-> m.appium_server,
                     automation_name |-> m.automation_name,
                     new_command_timeout |-> m.new_command_timeout,
                     no_reset |-> m.no_reset, full_reset |-> m.full_reset],
         browser |-> [screenshot_on_failure |->
                          settings.core.browser.screenshot_on_failure]]

\* mobile_factory: the data dict built from test_config; a key whose value
\* is None is left out, which dict.get(key) cannot tell from a None value
mobile_data_config(settings) ==
    LET a == settings.data.mobile_app.android
        i == settings.data.mobile_app.ios
    IN  [mobile_app |->
            [android |-> [platform |-> a.platform, device_name |-> a.device_name,
                          platform_version |-> a.platform_version]
                         @@ DictOf([app_path |-> a.app_path,
                                    app_package |-> a.app_package,
                                    app_activity |-> a.app_activity]),
             ios |-> [platform |-> i.platform, device_name |-> i.device_name,
                      platform_version |-> i.platform_version]
                     @@ DictOf([app_path |-> i.app_path, bundle_id |-> i.bundle_id,
                                udid |-> i.udid])],
         timeouts |-> [implicit_wait |-> settings.data.timeouts.implicit_wait]]

\* the state a fixture works on: the two factories, the objects of the
\* libraries, item.funcargs, and whether a fixture has raised
FixtureState ==
    [f |-> Factory, w |-> world, d |-> _driver,
     file |-> file_config, caller |-> caller_config, cfg |-> config,
     core |-> core_config, data |-> data_config, mcfg |-> mobile_config,
     funcargs |-> EmptyDict, raised |-> FALSE]

Provide(s, name, value) == [s EXCEPT !.funcargs = Put(@, name, value)]

\* browser_factory: BrowserFactory(browser_config, cli_browser_overrides),
\* b is how _build_config ended
NewBrowserFactory(s, name, dict, b) ==
    IF b.raised
    THEN [s EXCEPT !.file = dict, !.caller = b.caller, !.raised = TRUE]
    ELSE Provide([s EXCEPT !.file = dict, !.caller = b.caller,
                           !.cfg = BrowserConfig_from_dict(b.merged)],
                 name, "BrowserFactory")

\* mobile_factory: MobileFactory(core_config, data_config, cli_mobile_overrides)
NewMobileFactory(s, name, core, data) ==
    Provide([s EXCEPT !.core = core, !.data = data,
                      !.mcfg = mobile_build_config(core, data, environ,
                                                   cli_mobile_overrides(options))],
            name, "MobileFactory")

\* the set-up part of each fixture: every way it can end
SetupFixture(s, name, sid, settings) ==
    CASE name = "test_config" -> {Provide(s, name, sid)}
      [] name = "api_client" -> {Provide(s, name, "APIClient")}
      [] name = "browser_factory" ->
            {NewBrowserFactory(s, name, dict,
                 _build_config(dict, environ, cli_browser_overrides(options))) :
               dict \in {browser_config(settings)}}
      [] name = "browser" ->
            {IF o.raised THEN [s EXCEPT !.f = o.f, !.w = o.w, !.raised = TRUE]
             ELSE Provide([s EXCEPT !.f = o.f, !.w = o.w], name, o.ret) :
               o \in launch_browser(s.f, s.w)}
      [] name = "context" ->
            {IF o.raised THEN [s EXCEPT !.f = o.f, !.w = o.w, !.raised = TRUE]
             ELSE Provide([s EXCEPT !.f = o.f,
                                    !.w = [o.w EXCEPT !.ctxs[o.ret].returned = TRUE]],
                          name, o.ret) :
               o \in create_context(s.f, s.w, s.funcargs["browser"],
                                    s.cfg.trace_on_failure)}
      [] name = "page" ->
            {IF o.raised THEN [s EXCEPT !.f = o.f, !.w = o.w, !.raised = TRUE]
             ELSE Provide([s EXCEPT !.f = o.f,
                                    !.w = [o.w EXCEPT !.pages[o.ret].returned = TRUE]],
                          name, [id |-> o.ret, context |-> o.w.pages[o.ret].ctx]) :
               o \in create_page(s.f, s.w, s.funcargs["context"],
                                 s.cfg.trace_on_failure)}
      [] name = "ui_actions" -> {Provide(s, name, [page |-> s.funcargs["page"]])}
      [] name = "mobile_factory" ->
            {NewMobileFactory(s, name, mobile_core_config(settings),
                              mobile_data_config(settings))}
      [] name = "appium_driver" ->
            {IF o.raised THEN [s EXCEPT !.d = o.d, !.w = o.w, !.raised = TRUE]
             ELSE Provide([s EXCEPT !.d = o.d, !.w = o.w], name, o.ret) :
               o \in create_driver(s.d, s.w)}
      [] name = "mobile_actions" ->
            {Provide(s, name, [driver |-> s.funcargs["appium_driver"]])}

\* the fixtures of the closure are set up in order until one raises
RECURSIVE Fill(_, _, _, _, _)
Fill(S, closure, i, sid, settings) ==
    IF i > Len(FixtureOrder) THEN S
    ELSE Fill(UNION {IF s.raised \/ FixtureOrder[i] \notin closure THEN {s}
                     ELSE SetupFixture(s, FixtureOrder[i], sid, settings) : s \in S},
              closure, i + 1, sid, settings)

\* what the finalizers of one teardown may run into: page.close() raises,
\* context.close() raises, the release steps of BrowserFactory.close() that
\* raise (the page and context fixtures have emptied its lists by then),
\* driver.quit() raises, APIClient.close() raises
TeardownFaults(s) ==
    [page : IF Has(s.funcargs, "page") THEN BOOLEAN ELSE {FALSE},
     context : IF Has(s.funcargs, "context") THEN BOOLEAN ELSE {FALSE},
     factory : IF Has(s.funcargs, "browser_factory")
               THEN SUBSET {t \in ReleaseTargets(s.f) : t[1] \in {"browser", "playwright"}}
               ELSE {{}},
     driver : IF Has(s.funcargs, "mobile_factory") /\ s.d # 0 THEN BOOLEAN
              ELSE {FALSE},
     api : IF Has(s.funcargs, "api_client") THEN BOOLEAN ELSE {FALSE}]

\* a factory call of a finalizer has ended as o
Released(s, o) == [s EXCEPT !.f = o.f, !.w = o.w]

\* page: browser_factory.close_page(page)
FinalizePage(s, failing) ==
    IF Has(s.funcargs, "page")
    THEN Released(s, close_page(s.f, s.w, s.funcargs["page"].id, failing))
    ELSE s

\* context: browser_factory.close_context(context)
FinalizeContext(s, failing) ==
    IF Has(s.funcargs, "context")
    THEN Released(s, close_context(s.f, s.w, s.funcargs["context"], failing))
    ELSE s

\* the driver is gone: mobile_factory's factory.close() has ended as o
Quit(s, o) == [s EXCEPT !.d = o.d, !.w = o.w]

\* mobile_factory: factory.close()
FinalizeMobileFactory(s, failing) ==
    IF Has(s.funcargs, "mobile_factory")
    THEN Quit(s, mobile_close(s.d, s.w, failing))
    ELSE s

\* browser_factory: factory.close()
FinalizeBrowserFactory(s, fails) ==
    IF Has(s.funcargs, "browser_factory")
    THEN Released(s, close(s.f, s.w, fails))
    ELSE s

\* the finalizers of the fixtures that were set up: the function-scoped
\* ones (page, context, api_client), then the session-scoped factories
Finalize(s, faults) ==
    [FinalizeBrowserFactory(
         FinalizeMobileFactory(
             FinalizeContext(FinalizePage(s, faults.page), faults.context),
             faults.driver),
         faults.factory)
     EXCEPT !.raised = faults.api]

----------------------------------------------------------------------------
(* Test run: pytest_configure builds the settings, one test item is        *)
(* collected and run through setup, call and teardown; each phase hands    *)
(* its report to pytest_runtest_makereport before the next phase starts.   *)

RInit ==
    /\ ConfigIdle("report")
    /\ FactoryInit
    /\ fs \in { {}, {<<CoreName>>}, {<<"configs", CoreName>>}, {<<"ci", "bad.yml">>} }
    /\ _settings_instance = 0
    /\ heap = <<>>
    /\ slast = NoSettingsCall
    /\ rpc = "configure"
    /\ ReportFresh
    /\ ExtraIdle

\* pytest_configure: get_settings with the paths of the command line
PytestConfigure ==
    /\ rpc = "configure"
    /\ \E a \in PathArgs :
          LET o == get_settings(fs, _settings_instance, heap, a.core, a.data, FALSE)
          IN  /\ _settings_instance' = o.inst
              /\ heap' = o.heap
              /\ rpc' = IF o.raised THEN "aborted" ELSE "collect"
    /\ UNCHANGED <<fs, slast>>
    /\ UNCHANGED <<item, pending, reports, attached, logged, collections, capture,
                   result>>
    /\ UNCHANGED <<cvars, fvars, yvars>>

\* the test item of the run; an item that is not a test function has no funcargs
Collect ==
    /\ rpc = "collect"
    /\ \E k \in ItemKinds, hf \in BOOLEAN :
          /\ hf \/ k = {}
          /\ item' = [requested |-> k, has_funcargs |-> hf, funcargs |-> EmptyDict]
    /\ rpc' = "setup"
    /\ UNCHANGED <<pending, reports, attached, logged, collections, capture, result>>
    /\ UNCHANGED <<cvars, fvars, svars, yvars>>

PhaseReport(when, failed) == [when |-> when, failed |-> failed]

\* the states the fixtures of the closure can reach; o is how the
\* get_settings call of test_config ended
SetupStates(closure, o) ==
    IF closure = {} THEN {FixtureState}
    ELSE IF o.raised THEN {[FixtureState EXCEPT !.raised = TRUE]}
    ELSE Fill({FixtureState}, closure, 1, o.ret, o.heap[o.ret])

\* setup phase: the fixtures of the closure are set up; test_config gets
\* the settings of the session from get_settings
RunSetup ==
    /\ rpc = "setup" /\ pending = <<>>
    /\ \E closure \in {Closure(item.requested)} :
          \E o \in {get_settings(fs, _settings_instance, heap, <<>>, <<>>, FALSE)} :
             /\ _settings_instance' = IF closure = {} THEN _settings_instance ELSE o.inst
             /\ heap' = IF closure = {} THEN heap ELSE o.heap
             /\ \E s \in SetupStates(closure, o) :
                   /\ SetFactory(s.f)
                   /\ world' = s.w
                   /\ _driver' = s.d
                   /\ file_config' = s.file
                   /\ caller_config' = s.caller
                   /\ config' = s.cfg
                   /\ core_config' = s.core
                   /\ data_config' = s.data
                   /\ mobile_config' = s.mcfg
                   /\ item' = [item EXCEPT !.funcargs = s.funcargs]
                   /\ pending' = <<PhaseReport("setup", s.raised)>>
    /\ UNCHANGED <<fs, slast, last>>
    /\ UNCHANGED <<rpc, reports, attached, logged, collections, capture, result>>
    /\ UNCHANGED <<run, pc, environ, options, cli_overrides, settings_browser,
                   mobile_overrides>>
    /\ UNCHANGED yvars

\* the operations the test body can reach through its fixtures
BodyOps(funcargs) ==
    (IF Has(funcargs, "ui_actions") THEN UiOps ELSE {})
    \cup (IF Has(funcargs, "mobile_actions") THEN MobileOps ELSE {})
    \cup (IF Has(funcargs, "api_client") THEN ApiOps ELSE {})

\* call phase: the test body makes one adapter call (none when it has no
\* adapter) and then checks its assertions; it fails when the call raises
\* or an assertion does not hold
RunCall ==
    /\ rpc = "call" /\ pending = <<>>
    /\ \E op \in (IF BodyOps(item.funcargs) = {} THEN {"none"}
                  ELSE BodyOps(item.funcargs)) :
          \E fault \in (IF op = "none" THEN {"ok"} ELSE OpFaults(op)),
             assertion_fails \in BOOLEAN :
             \E r \in {IF op = "none" THEN Ret("None") ELSE AdapterCall(op, fault)} :
                 /\ result' = [op |-> op, fault |-> fault, raised |-> r.raised,
                               ret |-> r.ret]
                 /\ pending' = <<PhaseReport("call",
                                             r.raised # "none" \/ assertion_fails)>>
    /\ UNCHANGED <<item, rpc, reports, attached, logged, collections, capture>>
    /\ UNCHANGED <<cvars, fvars, svars, yvars>>

\* teardown phase: the finalizers run; only APIClient.close() can raise
RunTeardown ==
    /\ rpc = "teardown" /\ pending = <<>>
    /\ \E s0 \in {[FixtureState EXCEPT !.funcargs = item.funcargs]} :
          \E faults \in TeardownFaults(s0) :
             \E s \in {Finalize(s0, faults)} :
                /\ SetFactory(s.f)
                /\ world' = s.w
                /\ _driver' = s.d
                /\ pending' = <<PhaseReport("teardown", s.raised)>>
    /\ UNCHANGED last
    /\ UNCHANGED <<item, rpc, reports, attached, logged, collections, capture, result>>
    /\ UNCHANGED <<cvars, svars, yvars>>

\* what the captures of one collection run into: the steps that raise and
\* whether the page has a video
Captures(it, report) ==
    IF report.when = "call" /\ report.failed
    THEN {[NoCapture EXCEPT !.fails = F, !.has_video = v] :
            F \in {G \in SUBSET AppliedSteps(it.funcargs) : Cardinality(G) <= MaxFailing},
            v \in (IF FoundPage(it.funcargs) = <<>> THEN {FALSE} ELSE BOOLEAN)}
    ELSE {NoCapture}

\* the phase that follows the report
NextPhase(report) ==
    CASE report.when = "setup" -> IF report.failed THEN "teardown" ELSE "call"
      [] report.when = "call" -> "teardown"
      [] report.when = "teardown" -> "done"

\* the report of the phase that just ended goes through the hook
MakeReport ==
    /\ pending # <<>>
    /\ \E report \in {pending[1]} :
          /\ \E cap \in Captures(item, report) :
                \E h \in {pytest_runtest_makereport(fs, _settings_instance, heap, item,
                              report, cap, HookState(attached, logged))} :
                   /\ _settings_instance' = h.inst
                   /\ heap' = h.heap
                   /\ attached' = h.st.attached
                   /\ logged' = h.st.logged
                   /\ collections' = collections + (IF h.collected THEN 1 ELSE 0)
                   /\ capture' = [fails |-> IF h.collected THEN cap.fails
                                            ELSE capture.fails,
                                  has_video |-> IF h.collected THEN cap.has_video
                                                ELSE capture.has_video,
                                  raised |-> capture.raised \/ h.raised,
                                  page |-> IF h.collected THEN h.st.page
                                           ELSE capture.page,
                                  context |-> IF h.collected THEN h.st.context
                                              ELSE capture.context,
                                  driver |-> IF h.collected THEN h.st.driver
                                             ELSE capture.driver]
          /\ reports' = Append(reports, report)
          /\ rpc' = NextPhase(report)
    /\ pending' = <<>>
    /\ UNCHANGED <<fs, slast>>
    /\ UNCHANGED <<item, result>>
    /\ UNCHANGED <<cvars, fvars, yvars>>

RNext ==
    \/ PytestConfigure
    \/ Collect
    \/ RunSetup
    \/ RunCall
    \/ RunTeardown
    \/ MakeReport

SpecReport == RInit /\ [][RNext]_vars

----------------------------------------------------------------------------
(* The collectors on any item.funcargs: the handle slots are drawn from     *)
(* bounded sets of distinct pages, contexts and drivers, the test body      *)
(* runs and its report goes through the hook.                               *)

\* how many distinct objects of each kind the slots can hold
MaxHandles == 2

PageObjects == {[id |-> i, context |-> i] : i \in 1..MaxHandles}

Slot(name, values) == {EmptyDict} \cup {Put(EmptyDict, name, v) : v \in values}

DiscoverFuncargs ==
    {p @@ u @@ c @@ d @@ ma :
        p \in Slot("page", PageObjects),
        u \in Slot("ui_actions", {[page |-> q] : q \in PageObjects}),
        c \in Slot("context", 1..MaxHandles),
        d \in Slot("appium_driver", 1..MaxHandles),
        ma \in Slot("mobile_actions", {[driver |-> i] : i \in 1..MaxHandles})}

\* the session is configured from the defaults, the item is in its call phase
DInit ==
    /\ ConfigIdle("discover")
    /\ FactoryInit
    /\ fs = {}
    /\ \E o \in {get_settings({}, 0, <<>>, <<>>, <<>>, FALSE)} :
          _settings_instance = o.inst /\ heap = o.heap
    /\ slast = NoSettingsCall
    /\ rpc = "call"
    /\ \E fa \in DiscoverFuncargs :
          item = [requested |-> DOMAIN fa, has_funcargs |-> TRUE, funcargs |-> fa]
    /\ pending = <<>>
    /\ reports = <<>>
    /\ attached = <<>>
    /\ logged = <<>>
    /\ collections = 0
    /\ capture = NoCapture
    /\ result = NoResult
    /\ ExtraIdle

DNext ==
    \/ RunCall
    \/ MakeReport

SpecDiscover == DInit /\ [][DNext]_vars

----------------------------------------------------------------------------
(* launch_browser and create_driver statement by statement, called from     *)
(* several threads on the same factories. A thread switch can happen        *)
(* between any two statements, and between the library call that creates    *)
(* a handle and the store of its result in the factory's field.             *)

MaxThreads == 2
\* calls begun over all threads
MaxThreadCalls == 3

CreateOps == {"launch_browser", "create_driver"}

IdleThread == [pc |-> "idle", op |-> "none", local |-> 0]

\* "if self._browser is not None and self._browser.is_connected()" that
\* never holds
AlreadyLaunched_never(b, w) == FALSE

\* launch_browser: if self._browser is not None and self._browser.is_connected()
AlreadyLaunched(b, w) == b # 0 /\ is_connected(w, b)

\* create_driver: if self._driver is not None
AlreadyCreated(d) == d # 0

\* thread t moves to the statement at
Goto(t, at) == [threads EXCEPT !.of[t].pc = at]

\* the call of thread t ends
Finish(th, t, ret, raised) ==
    [th EXCEPT !.of[t] = IdleThread,
               !.returned = Append(@, [op |-> th.of[t].op, ret |-> ret,
                                       raised |-> raised])]

TInit ==
    /\ ConfigIdle("threads")
    /\ FactoryInit
    /\ SettingsIdle
    /\ ReportIdle
    /\ threads = [of |-> [t \in 1..MaxThreads |-> IdleThread],
                  overlap |-> {},
                  passed |-> [op \in CreateOps |-> 0],
                  stored |-> [op \in CreateOps |-> 0],
                  returned |-> <<>>,
                  n |-> 0]
    /\ api = NoApi
    /\ registry = NoRegistry
    /\ scroll = NoScroll

TUnchanged == UNCHANGED <<cvars, svars, rvars, api, registry, scroll, _contexts, _pages, last>>

\* a thread calls launch_browser() or create_driver()
TBegin ==
    /\ threads.n < MaxThreadCalls
    /\ \E t \in 1..MaxThreads, op \in CreateOps :
          /\ threads.of[t].pc = "idle"
          /\ threads' = [threads EXCEPT
                 !.of[t] = [pc |-> "check", op |-> op, local |-> 0],
                 !.n = @ + 1,
                 !.overlap = IF \E u \in 1..MaxThreads : threads.of[u].op = op
                             THEN @ \cup {op} ELSE @]
    /\ UNCHANGED <<_playwright, _browser, _driver, world>>
    /\ TUnchanged

\* the "already created" check at the head of the call
TCheck ==
    /\ \E t \in 1..MaxThreads :
          /\ threads.of[t].pc = "check"
          /\ \E hit \in {IF threads.of[t].op = "launch_browser"
                          THEN AlreadyLaunched(_browser, world)
                          ELSE AlreadyCreated(_driver)} :
                threads' = [threads EXCEPT
                    !.of[t].pc = IF hit THEN "return"
                                 ELSE IF threads.of[t].op = "launch_browser"
                                 THEN "start" ELSE "create",
                    !.passed[threads.of[t].op] = IF hit THEN @ ELSE @ + 1]
    /\ UNCHANGED <<_playwright, _browser, _driver, world>>
    /\ TUnchanged

\* self._playwright = sync_playwright().start()
TStart ==
    /\ \E t \in 1..MaxThreads :
          /\ threads.of[t].pc = "start"
          /\ \/ /\ threads' = Finish(threads, t, 0, TRUE)
                /\ UNCHANGED <<_playwright, world>>
             \/ /\ world' = [world EXCEPT !.engines = Append(@, "running")]
                /\ _playwright' = Len(world.engines) + 1
                /\ threads' = Goto(t, "launch")
    /\ UNCHANGED <<_browser, _driver>>
    /\ TUnchanged

\* getattr(self._playwright, type).launch(...) / webdriver.Remote(...): the
\* library call returns the new handle
TCreate ==
    /\ \E t \in 1..MaxThreads :
          \/ /\ threads.of[t].pc = "launch"
             /\ \/ /\ threads' = Finish(threads, t, 0, TRUE)
                   /\ UNCHANGED world
                \/ /\ world' = [world EXCEPT !.browsers =
                                    Append(@, [engine |-> _playwright,
                                               state |-> "connected"])]
                   /\ threads' = [threads EXCEPT
                          !.of[t] = [@ EXCEPT !.pc = "store",
                                              !.local = Len(world.browsers) + 1]]
          \/ /\ threads.of[t].pc = "create"
             /\ \/ /\ threads' = Finish(threads, t, 0, TRUE)
                   /\ UNCHANGED world
                \/ /\ world' = [world EXCEPT !.drivers = Append(@, "active")]
                   /\ threads' = [threads EXCEPT
                          !.of[t] = [@ EXCEPT !.pc = "store",
                                              !.local = Len(world.drivers) + 1]]
    /\ UNCHANGED <<_playwright, _browser, _driver>>
    /\ TUnchanged

\* self._browser = <the new browser> / self._driver = <the new driver>
TStore ==
    /\ \E t \in 1..MaxThreads :
          /\ threads.of[t].pc = "store"
          /\ \/ /\ threads.of[t].op = "launch_browser"
                /\ _browser' = threads.of[t].local
                /\ threads' = [Goto(t, "return") EXCEPT
                                  !.stored["launch_browser"] = threads.of[t].local]
                /\ UNCHANGED _driver
             \/ /\ threads.of[t].op = "create_driver"
                /\ _driver' = threads.of[t].local
                /\ threads' = [Goto(t, "wait") EXCEPT
                                  !.stored["create_driver"] = threads.of[t].local]
                /\ UNCHANGED _browser
    /\ UNCHANGED <<_playwright, world>>
    /\ TUnchanged

\* self._driver.implicitly_wait(...)
TWait ==
    /\ \E t \in 1..MaxThreads :
          /\ threads.of[t].pc = "wait"
          /\ \/ threads' = Finish(threads, t, 0, TRUE)
             \/ threads' = Goto(t, "return")
    /\ UNCHANGED <<_playwright, _browser, _driver, world>>
    /\ TUnchanged

\* return self._browser / return self._driver
TReturn ==
    /\ \E t \in 1..MaxThreads :
          /\ threads.of[t].pc = "return"
          /\ threads' = Finish(threads, t,
                               IF threads.of[t].op = "launch_browser" THEN _browser
                               ELSE _driver,
                               FALSE)
    /\ UNCHANGED <<_playwright, _browser, _driver, world>>
    /\ TUnchanged

TNext ==
    \/ TBegin
    \/ TCheck
    \/ TStart
    \/ TCreate
    \/ TStore
    \/ TWait
    \/ TReturn

SpecThreads == TInit /\ [][TNext]_vars

----------------------------------------------------------------------------
(* adapters/api/api_actions_impl.py RequestsAPIActions and api/client.py     *)
(* APIClient. A response is its status code and its JSON body (<<>> when    *)
(* the body is not JSON); None is <<>>, a value v is <<v>>, a str is the    *)
(* sequence of its characters. api.returned is history: the response the    *)
(* last request method returned.                                            *)

MaxApiCalls == 3

StatusCodes == {200, 201, 404, 500}
RequestMethods == {"get", "post", "put", "patch", "delete", "upload_file"}

T1 == <<"t", "1">>
T2 == <<"t", "2">>
Bearer == <<"B", "e", "a", "r", "e", "r", " ">>

\* the JSON bodies of a login response: a dict with or without the two keys
LoginBodies ==
    {a @@ t : a \in {EmptyDict} \cup {Put(EmptyDict, "access_token", v) : v \in {<<>>, T1}},
              t \in {EmptyDict} \cup {Put(EmptyDict, "token", v) : v \in {<<>>, T2}}}

Response(status, body) == [status_code |-> status, body |-> body]

\* how session.<method>(...) ends: it raises or returns a response
SessionOutcomes(bodies) ==
    {[raised |-> TRUE, response |-> Response(0, <<>>)]}
    \cup {[raised |-> FALSE, response |-> Response(sc, b)] :
             sc \in StatusCodes, b \in bodies}

ApiOutcome(a, ret, raised) == [a |-> a, ret |-> ret, raised |-> raised]

\* requests.Response.__bool__ is Response.ok: False for a 4xx or 5xx status
ResponseBool(r) == ~(400 <= r.status_code /\ r.status_code < 600)

\* get, post, put, patch, delete, upload_file:
\* self._last_response = self.session.<method>(...); return self._last_response
request(a, out) ==
    IF out.raised THEN ApiOutcome(a, <<>>, "RequestException")
    ELSE ApiOutcome([a EXCEPT !._last_response = <<out.response>>,
                              !.returned = <<out.response>>],
                    <<out.response>>, "none")

\* get_last_status_code: if self._last_response: return its status_code
get_last_status_code(a) ==
    IF a._last_response # <<>> /\ ResponseBool(a._last_response[1])
    THEN <<a._last_response[1].status_code>>
    ELSE <<>>

\* assert_status_code: assert actual == expected
assert_status_code(a, expected) ==
    IF get_last_status_code(a) = <<expected>> THEN ApiOutcome(a, <<>>, "none")
    ELSE ApiOutcome(a, <<>>, "AssertionError")

\* set_auth_token: session.headers["Authorization"] = f"Bearer {token}"
set_auth_token(a, token) == [a EXCEPT !.Authorization = <<Bearer \o token>>]

\* remove_header: session.headers.pop(key, None)
remove_header(a) == [a EXCEPT !.Authorization = <<>>]

\* dict.get(key): None when the key is missing
DictGet(d, k) == IF Has(d, k) THEN <<d[k]>> ELSE <<>>

\* x or y on Optional[str]: x when it is neither None nor ""
PyOr(x, y) == IF x # <<>> /\ x[1] # <<>> THEN x ELSE y

\* authenticate, lines 47-58: r is how self.api.post("/auth/login", ...) ended
StoreToken(r) ==
    IF r.raised # "none" THEN r
    ELSE IF r.ret[1].status_code # 200
    THEN ApiOutcome(r.a, <<>>, "AuthenticationError")
    ELSE IF r.ret[1].body = <<>> THEN ApiOutcome(r.a, <<>>, "ValueError")
    ELSE ApiOutcome(
            IF PyOr(DictGet(r.ret[1].body[1], "access_token"),
                    DictGet(r.ret[1].body[1], "token")) \in {<<>>, << <<>> >>}
            THEN [r.a EXCEPT !._token =
                     PyOr(DictGet(r.ret[1].body[1], "access_token"),
                          DictGet(r.ret[1].body[1], "token"))]
            ELSE set_auth_token(
                    [r.a EXCEPT !._token =
                        PyOr(DictGet(r.ret[1].body[1], "access_token"),
                             DictGet(r.ret[1].body[1], "token"))],
                    PyOr(DictGet(r.ret[1].body[1], "access_token"),
                         DictGet(r.ret[1].body[1], "token"))[1]),
            r.ret[1].body, "none")

\* APIClient.authenticate(username, password)
authenticate(a, out) == StoreToken(request(a, out))

\* APIClient.clear_auth
clear_auth(a) == ApiOutcome(remove_header([a EXCEPT !._token = <<>>]), <<>>, "none")

\* APIClient.is_authenticated
is_authenticated(a) == a._token # <<>>

\* the call op(arg) has ended as o
ApiCall(op, arg, o) ==
    [o.a EXCEPT !.op = op, !.arg = arg, !.ret = o.ret, !.raised = o.raised,
                !.n = api.n + 1]

AInit ==
    /\ ConfigIdle("api")
    /\ FactoryInit
    /\ SettingsIdle
    /\ ReportIdle
    /\ threads = NoThreads
    /\ api = NoApi
    /\ registry = NoRegistry
    /\ scroll = NoScroll

AUnchanged == UNCHANGED <<cvars, fvars, svars, rvars, threads, registry, scroll>>

\* api.get(...), api.post(...), ...: a login body is not needed here
Request ==
    /\ api.n < MaxApiCalls
    /\ \E method \in RequestMethods :
          \E out \in SessionOutcomes({<<>>, <<EmptyDict>>}) :
             api' = ApiCall(method, 0, request(api, out))
    /\ AUnchanged

GetLastStatusCode ==
    /\ api.n < MaxApiCalls
    /\ api' = ApiCall("get_last_status_code", 0,
                      ApiOutcome(api, get_last_status_code(api), "none"))
    /\ AUnchanged

AssertStatusCode ==
    /\ api.n < MaxApiCalls
    /\ \E expected \in StatusCodes :
          api' = ApiCall("assert_status_code", expected,
                         assert_status_code(api, expected))
    /\ AUnchanged

Authenticate ==
    /\ api.n < MaxApiCalls
    /\ \E out \in SessionOutcomes({<<>>} \cup {<<b>> : b \in LoginBodies}) :
          api' = ApiCall("authenticate", 0, authenticate(api, out))
    /\ AUnchanged

ClearAuth ==
    /\ api.n < MaxApiCalls
    /\ api' = ApiCall("clear_auth", 0, clear_auth(api))
    /\ AUnchanged

ANext ==
    \/ Request
    \/ GetLastStatusCode
    \/ AssertStatusCode
    \/ Authenticate
    \/ ClearAuth

SpecApi == AInit /\ [][ANext]_vars

----------------------------------------------------------------------------
(* The module-level singletons of browser_factory.py and mobile_factory.py. *)
(* registry.browser / registry.mobile are the two _factory_instance         *)
(* globals (0 for None, else an index), registry.browsers / .mobiles the    *)
(* factories constructed so far: a caller keeps the factories it obtained   *)
(* and can go on using them.                                                *)

\* factories constructed per kind
MaxFactories == 2
MaxRegistryCalls == 4

\* BrowserFactory.__init__: no engine, no browser, empty lists
FreshFactory == [pw |-> 0, br |-> 0, ctxs |-> <<>>, pgs |-> <<>>]

\* get_browser_factory(config, cli_overrides, force_new)
get_browser_factory(reg, force_new) ==
    IF reg.browser = 0 \/ force_new
    THEN [reg EXCEPT !.browsers = Append(@, FreshFactory),
                     !.browser = Len(reg.browsers) + 1]
    ELSE reg

\* get_mobile_factory(core_config, data_config, cli_overrides, force_new);
\* a MobileFactory is its _driver field
get_mobile_factory(reg, force_new) ==
    IF reg.mobile = 0 \/ force_new
    THEN [reg EXCEPT !.mobiles = Append(@, 0), !.mobile = Len(reg.mobiles) + 1]
    ELSE reg

\* close_browser_factory(): o is how _factory_instance.close() ended
close_browser_factory(reg, o) ==
    [reg EXCEPT !.browsers[reg.browser] = o.f, !.browser = 0]

\* close_mobile_factory(): o is how _factory_instance.close() ended
close_mobile_factory(reg, o) ==
    [reg EXCEPT !.mobiles[reg.mobile] = o.d, !.mobile = 0]

\* the call op has ended with the registry as reg
RegCall(reg, op, force_new, ret) ==
    [reg EXCEPT !.op = op, !.force_new = force_new, !.ret = ret,
                !.prev = IF op \in {"get_browser_factory", "close_browser_factory"}
                         THEN registry.browser
                         ELSE IF op \in {"get_mobile_factory", "close_mobile_factory"}
                         THEN registry.mobile
                         ELSE 0,
                !.n = registry.n + 1]

GInit ==
    /\ ConfigIdle("singleton")
    /\ FactoryInit
    /\ SettingsIdle
    /\ ReportIdle
    /\ threads = NoThreads
    /\ api = NoApi
    /\ registry = NoRegistry
    /\ scroll = NoScroll

GUnchanged ==
    UNCHANGED <<cvars, svars, rvars, threads, api, scroll, _playwright, _browser,
                _contexts, _pages, _driver, last>>

GetBrowserFactory ==
    /\ registry.n < MaxRegistryCalls
    /\ \E force_new \in BOOLEAN :
          /\ (registry.browser = 0 \/ force_new) => Len(registry.browsers) < MaxFactories
          /\ \E reg \in {get_browser_factory(registry, force_new)} :
                registry' = RegCall(reg, "get_browser_factory", force_new, reg.browser)
    /\ UNCHANGED world
    /\ GUnchanged

CloseBrowserFactory ==
    /\ registry.n < MaxRegistryCalls
    /\ IF registry.browser # 0
       THEN \E fails \in SUBSET ReleaseTargets(registry.browsers[registry.browser]) :
               \E o \in {close(registry.browsers[registry.browser], world, fails)} :
                  /\ world' = o.w
                  /\ registry' = RegCall(close_browser_factory(registry, o),
                                         "close_browser_factory", FALSE, 0)
       ELSE /\ registry' = RegCall(registry, "close_browser_factory", FALSE, 0)
            /\ UNCHANGED world
    /\ GUnchanged

\* a caller uses a factory it obtained: launch_browser() or create_context()
UseBrowserFactory ==
    /\ registry.n < MaxRegistryCalls
    /\ \E i \in 1..Len(registry.browsers) :
          \/ \E o \in launch_browser(registry.browsers[i], world) :
                /\ world' = o.w
                /\ registry' = RegCall([registry EXCEPT !.browsers[i] = o.f],
                                       "launch_browser", FALSE, o.ret)
          \/ \E o \in create_context(registry.browsers[i], world, 0, FALSE) :
                /\ world' = o.w
                /\ registry' = RegCall([registry EXCEPT !.browsers[i] = o.f],
                                       "create_context", FALSE, o.ret)
    /\ GUnchanged

GetMobileFactory ==
    /\ registry.n < MaxRegistryCalls
    /\ \E force_new \in BOOLEAN :
          /\ (registry.mobile = 0 \/ force_new) => Len(registry.mobiles) < MaxFactories
          /\ \E reg \in {get_mobile_factory(registry, force_new)} :
                registry' = RegCall(reg, "get_mobile_factory", force_new, reg.mobile)
    /\ UNCHANGED world
    /\ GUnchanged

CloseMobileFactory ==
    /\ registry.n < MaxRegistryCalls
    /\ IF registry.mobile # 0
       THEN \E failing \in BOOLEAN :
               \E o \in {mobile_close(registry.mobiles[registry.mobile], world, failing)} :
                  /\ world' = o.w
                  /\ registry' = RegCall(close_mobile_factory(registry, o),
                                         "close_mobile_factory", FALSE, 0)
       ELSE /\ registry' = RegCall(registry, "close_mobile_factory", FALSE, 0)
            /\ UNCHANGED world
    /\ GUnchanged

\* a caller uses a mobile factory it obtained: create_driver()
UseMobileFactory ==
    /\ registry.n < MaxRegistryCalls
    /\ \E i \in 1..Len(registry.mobiles) :
          \E o \in create_driver(registry.mobiles[i], world) :
             /\ world' = o.w
             /\ registry' = RegCall([registry EXCEPT !.mobiles[i] = o.d],
                                    "create_driver", FALSE, o.ret)
    /\ GUnchanged

GNext ==
    \/ GetBrowserFactory
    \/ CloseBrowserFactory
    \/ UseBrowserFactory
    \/ GetMobileFactory
    \/ CloseMobileFactory
    \/ UseMobileFactory

SpecSingleton == GInit /\ [][GNext]_vars

----------------------------------------------------------------------------
(* adapters/mobile/mobile_actions_impl.py: one scroll_to_element call,      *)
(* statement by statement. A check is _find_element + is_displayed: it      *)
(* finds the element "displayed", "hidden" (not displayed), "missing"       *)
(* (NoSuchElementException, caught) or ends in another "error" of the        *)
(* driver, which propagates, as an error of get_window_size or swipe does.  *)
(* scroll.checks is the list of check results, scroll.swipes counts the     *)
(* self.swipe calls.                                                        *)

\* largest max_scrolls argument
MaxScrolls == 3

CheckResults == {"displayed", "hidden", "missing", "error"}

\* for i in range(max_scrolls) with one iteration more
range_has_next_inclusive(i, max_scrolls) == i <= max_scrolls

\* for i in range(max_scrolls): there is a next i
range_has_next(i, max_scrolls) == i < max_scrolls

\* the call has ended: raised is "none" for a return
ScrollDone(sc, raised) == [sc EXCEPT !.pc = "done", !.raised = raised]

\* scroll_to_element(locator, max_scrolls) has been called
ScInit ==
    /\ ConfigIdle("scroll")
    /\ FactoryInit
    /\ SettingsIdle
    /\ ReportIdle
    /\ threads = NoThreads
    /\ api = NoApi
    /\ registry = NoRegistry
    /\ \E max_scrolls \in 0..MaxScrolls :
          scroll = [NoScroll EXCEPT !.pc = "size", !.max_scrolls = max_scrolls]

ScUnchanged == UNCHANGED <<cvars, fvars, svars, rvars, threads, api, registry>>

\* screen_size = self.driver.get_window_size()
GetWindowSize ==
    /\ scroll.pc = "size"
    /\ \/ scroll' = ScrollDone(scroll, "WebDriverException")
       \/ scroll' = [scroll EXCEPT !.pc = "for"]
    /\ ScUnchanged

\* for i in range(max_scrolls): ... ; raise NoSuchElementException(...)
ForLoop ==
    /\ scroll.pc = "for"
    /\ scroll' = IF range_has_next(scroll.i, scroll.max_scrolls)
                 THEN [scroll EXCEPT !.pc = "check"]
                 ELSE ScrollDone(scroll, "NoSuchElementException")
    /\ ScUnchanged

\* try: element = self._find_element(locator); if element.is_displayed(): return
\* except NoSuchElementException: pass
Check ==
    /\ scroll.pc = "check"
    /\ \E found \in CheckResults :
          scroll' = [(CASE found = "displayed" -> ScrollDone(scroll, "none")
                        [] found = "error" -> ScrollDone(scroll, "WebDriverException")
                        [] OTHER -> [scroll EXCEPT !.pc = "swipe"])
                     EXCEPT !.checks = Append(@, found)]
    /\ ScUnchanged

\* self.swipe(start_x, start_y, start_x, end_y, 500), then the next i
Swipe ==
    /\ scroll.pc = "swipe"
    /\ \/ scroll' = [ScrollDone(scroll, "WebDriverException") EXCEPT !.swipes = @ + 1]
       \/ scroll' = [scroll EXCEPT !.pc = "for", !.swipes = @ + 1, !.i = @ + 1]
    /\ ScUnchanged

ScNext ==
    \/ GetWindowSize
    \/ ForLoop
    \/ Check
    \/ Swipe

SpecScroll == ScInit /\ [][ScNext]_vars

\* the calling thread keeps running and every driver call returns or raises
SpecScrollFair == SpecScroll /\ WF_vars(ScNext)

----------------------------------------------------------------------------
(* Configuration precedence (C1 - C3)                                      *)

\* an environment variable defines a setting when it is set and not empty
EnvDefines(var) == Has(environ, var) /\ environ[var] # <<>>
EnvInt(var) == ParseInt(environ[var]).val
FileViewport == Sub(file_config, "viewport")

ExpectedBrowserType ==
    IF Truthy(cli_overrides, "browser_type") THEN cli_overrides["browser_type"]
    ELSE IF EnvDefines("BROWSER_TYPE") THEN environ["BROWSER_TYPE"]
    ELSE IF Truthy(file_config, "type") THEN file_config["type"]
    ELSE IF Has(file_config, "default") THEN file_config["default"]
    ELSE S_chromium

ExpectedHeadless ==
    IF Has(cli_overrides, "headless") THEN cli_overrides["headless"]
    ELSE IF Has(cli_overrides, "headed") /\ cli_overrides["headed"] THEN FALSE
    ELSE IF EnvDefines("BROWSER_HEADLESS")
         THEN Lower(environ["BROWSER_HEADLESS"]) = <<"t","r","u","e">>
    ELSE IF Has(file_config, "headless") THEN file_config["headless"]
    ELSE TRUE

ExpectedSlowMo ==
    IF Has(cli_overrides, "slow_mo") THEN cli_overrides["slow_mo"]
    ELSE IF EnvDefines("BROWSER_SLOW_MO") THEN EnvInt("BROWSER_SLOW_MO")
    ELSE IF Has(file_config, "slow_mo") THEN file_config["slow_mo"]
    ELSE 0

ExpectedTimeout ==
    IF EnvDefines("BROWSER_TIMEOUT") THEN EnvInt("BROWSER_TIMEOUT")
    ELSE IF Has(file_config, "timeout") THEN file_config["timeout"]
    ELSE 30000

ExpectedViewportWidth ==
    IF EnvDefines("BROWSER_VIEWPORT_WIDTH") THEN EnvInt("BROWSER_VIEWPORT_WIDTH")
    ELSE IF Has(FileViewport, "width") THEN FileViewport["width"]
    ELSE 1920

ExpectedViewportHeight ==
    IF EnvDefines("BROWSER_VIEWPORT_HEIGHT") THEN EnvInt("BROWSER_VIEWPORT_HEIGHT")
    ELSE IF Has(FileViewport, "height") THEN FileViewport["height"]
    ELSE 1080

BrowserBuilt == run = "browser" /\ pc = "built"
MobileBuilt == run = "mobile" /\ pc = "built"

\* C1: every browser setting of the resolved BrowserConfig has the value of
\* the highest-precedence layer that defines it (CLI override > environment
\* variable > file config > compiled-in default); file headless=true with
\* BROWSER_HEADLESS=false and no CLI headless setting resolves to false.
C1_BrowserPrecedence ==
    BrowserBuilt =>
        /\ config.browser_type = ExpectedBrowserType
        /\ config.headless = ExpectedHeadless
        /\ config.slow_mo = ExpectedSlowMo
        /\ config.timeout = ExpectedTimeout
        /\ config.viewport_width = ExpectedViewportWidth
        /\ config.viewport_height = ExpectedViewportHeight
        /\ ( /\ Has(file_config, "headless") /\ file_config["headless"] = TRUE
             /\ Has(environ, "BROWSER_HEADLESS")
             /\ environ["BROWSER_HEADLESS"] = <<"f","a","l","s","e">>
             /\ ~Has(cli_overrides, "headless") /\ ~Has(cli_overrides, "headed")
             => config.headless = FALSE )

\* the example of C1 has been resolved
C1_Witness ==
    /\ BrowserBuilt
    /\ Has(file_config, "headless") /\ file_config["headless"] = TRUE
    /\ Has(environ, "BROWSER_HEADLESS") /\ environ["BROWSER_HEADLESS"] = <<"f","a","l","s","e">>
    /\ ~Has(cli_overrides, "headless") /\ ~Has(cli_overrides, "headed")
    /\ Has(cli_overrides, "slow_mo") /\ Has(file_config, "slow_mo")

AndroidFile == Sub(Sub(data_config, "mobile_app"), "android")
IosFile == Sub(Sub(data_config, "mobile_app"), "ios")
MobileCoreFile == Sub(core_config, "mobile")

\* the value of a str setting under CLI > environment > file, as an Optional
Layered(cliKey, envVar, fileDict, fileKey) ==
    IF Truthy(mobile_overrides, cliKey) THEN <<mobile_overrides[cliKey]>>
    ELSE IF EnvDefines(envVar) THEN <<environ[envVar]>>
    ELSE IF Has(fileDict, fileKey) THEN <<fileDict[fileKey]>>
    ELSE <<>>

\* C2: platform, device name, app path, UDID and no_reset of the resolved
\* MobileConfig are the CLI override when the CLI supplies it, otherwise the
\* environment variable when set, otherwise the file value; MOBILE_PLATFORM=ios
\* with --mobile-platform android resolves platform to "android".
C2_MobilePrecedence ==
    MobileBuilt =>
        /\ LET p == Layered("platform", "MOBILE_PLATFORM", AndroidFile, "platform")
           IN  /\ p # <<>> /\ (Truthy(mobile_overrides, "platform")
                               \/ EnvDefines("MOBILE_PLATFORM"))
                     => mobile_config.platform = Lower(p[1])
               /\ p # <<>> /\ ~Truthy(mobile_overrides, "platform")
                           /\ ~EnvDefines("MOBILE_PLATFORM")
                     => mobile_config.platform = p[1]
        /\ LET d == Layered("device_name", "MOBILE_DEVICE_NAME", AndroidFile, "device_name")
           IN  d # <<>> => mobile_config.android_device_name = d[1]
        /\ LET d == Layered("device_name", "MOBILE_DEVICE_NAME", IosFile, "device_name")
           IN  d # <<>> => mobile_config.ios_device_name = d[1]
        /\ mobile_config.android_app_path
              = Layered("app_path", "MOBILE_APP_PATH", AndroidFile, "app_path")
        /\ mobile_config.ios_app_path
              = Layered("app_path", "MOBILE_APP_PATH", IosFile, "app_path")
        /\ mobile_config.ios_udid = Layered("udid", "MOBILE_UDID", IosFile, "udid")
        /\ Has(mobile_overrides, "no_reset")
              => mobile_config.no_reset = mobile_overrides["no_reset"]
        /\ ~Has(mobile_overrides, "no_reset") /\ EnvDefines("MOBILE_NO_RESET")
              => mobile_config.no_reset = (Lower(environ["MOBILE_NO_RESET"]) = <<"t","r","u","e">>)
        /\ ~Has(mobile_overrides, "no_reset") /\ ~EnvDefines("MOBILE_NO_RESET")
           /\ Has(MobileCoreFile, "no_reset")
              => mobile_config.no_reset = MobileCoreFile["no_reset"]
        /\ ( /\ Has(environ, "MOBILE_PLATFORM")
             /\ Lower(environ["MOBILE_PLATFORM"]) = <<"i","o","s">>
             /\ Has(mobile_overrides, "platform")
             /\ mobile_overrides["platform"] = <<"a","n","d","r","o","i","d">>
             => mobile_config.platform = <<"a","n","d","r","o","i","d">> )

\* the example of C2 has been resolved
C2_Witness ==
    /\ MobileBuilt
    /\ Has(environ, "MOBILE_PLATFORM") /\ Lower(environ["MOBILE_PLATFORM"]) = <<"i","o","s">>
    /\ Has(mobile_overrides, "platform") /\ mobile_overrides["platform"] = <<"a","n","d","r","o","i","d">>
    /\ Has(AndroidFile, "platform")

\* C3: a configuration key that no layer supplies resolves to its compiled-in
\* default (browser type chromium, headless true, slow_mo 0, timeout 30000,
\* viewport 1920x1080; mobile platform android, appium server
\* http://localhost:4723).
C3_DefaultsWhenAbsent ==
    /\ BrowserBuilt =>
        /\ ( ~Truthy(cli_overrides, "browser_type") /\ ~EnvDefines("BROWSER_TYPE")
             /\ ~Truthy(file_config, "type") /\ ~Has(file_config, "default")
             => config.browser_type = <<"c","h","r","o","m","i","u","m">> )
        /\ ( ~Has(cli_overrides, "headless") /\ ~Has(cli_overrides, "headed")
             /\ ~EnvDefines("BROWSER_HEADLESS") /\ ~Has(file_config, "headless")
             => config.headless = TRUE )
        /\ ( ~Has(cli_overrides, "slow_mo") /\ ~EnvDefines("BROWSER_SLOW_MO")
             /\ ~Has(file_config, "slow_mo")
             => config.slow_mo = 0 )
        /\ ( ~EnvDefines("BROWSER_TIMEOUT") /\ ~Has(file_config, "timeout")
             => config.timeout = 30000 )
        /\ ( ~EnvDefines("BROWSER_VIEWPORT_WIDTH") /\ ~Has(FileViewport, "width")
             => config.viewport_width = 1920 )
        /\ ( ~EnvDefines("BROWSER_VIEWPORT_HEIGHT") /\ ~Has(FileViewport, "height")
             => config.viewport_height = 1080 )
        /\ ( ~Has(file_config, "type") => settings_browser.type = <<"c","h","r","o","m","i","u","m">> )
        /\ ( ~Has(file_config, "headless") => settings_browser.headless = TRUE )
        /\ ( ~Has(file_config, "slow_mo") => settings_browser.slow_mo = 0 )
        /\ ( ~Has(file_config, "timeout") => settings_browser.timeout = 30000 )
        /\ ( ~Has(FileViewport, "width") => settings_browser.viewport_width = 1920 )
        /\ ( ~Has(FileViewport, "height") => settings_browser.viewport_height = 1080 )
    /\ MobileBuilt =>
        /\ ( ~Truthy(mobile_overrides, "platform") /\ ~EnvDefines("MOBILE_PLATFORM")
             /\ ~Has(AndroidFile, "platform")
             => mobile_config.platform = <<"a","n","d","r","o","i","d">> )
        /\ ( ~EnvDefines("MOBILE_APPIUM_SERVER") /\ ~Has(MobileCoreFile, "appium_server")
             => mobile_config.appium_server = <<"h","t","t","p",":","/","/","l","o","c","a","l","h","o","s","t",":","4","7","2","3">> )
        /\ ( ~Truthy(mobile_overrides, "device_name") /\ ~EnvDefines("MOBILE_DEVICE_NAME")
             /\ ~Has(AndroidFile, "device_name")
             => mobile_config.android_device_name = <<"e","m","u","l","a","t","o","r","-","5","5","5","4">> )
        /\ ( ~Truthy(mobile_overrides, "device_name") /\ ~EnvDefines("MOBILE_DEVICE_NAME")
             /\ ~Has(IosFile, "device_name")
             => mobile_config.ios_device_name = <<"i","P","h","o","n","e"," ","1","4">> )
        /\ ( ~Has(mobile_overrides, "no_reset") /\ ~EnvDefines("MOBILE_NO_RESET")
             /\ ~Has(MobileCoreFile, "no_reset")
             => mobile_config.no_reset = FALSE )
        /\ ( ~EnvDefines("MOBILE_FULL_RESET") /\ ~Has(MobileCoreFile, "full_reset")
             => mobile_config.full_reset = FALSE )

\* a browser configuration has been resolved with no layer supplying the
\* type, the headless flag or the viewport
C3_Witness ==
    /\ BrowserBuilt
    /\ DOMAIN file_config \subseteq {"timeout"}
    /\ DOMAIN environ \subseteq {"BROWSER_SLOW_MO", "BROWSER_ARGS"}
    /\ cli_overrides = EmptyDict

----------------------------------------------------------------------------
(* Factory lifecycle (C4 - C10)                                            *)

\* this step is a call of op
Calls(op) == last'.n = last.n + 1 /\ last'.op = op

\* C4: consecutive launch_browser (create_driver) calls on one factory, with no
\* close() in between and the handle healthy, return the same handle and
\* launch the underlying browser (driver) once.
C4_CreateMemoized ==
    [][ /\ ( Calls("launch_browser") /\ last.op = "launch_browser" /\ ~last.raised
             => /\ ~last'.raised
                /\ last'.ret = last.ret
                /\ _browser' = last.ret
                /\ world'.browsers = world.browsers
                /\ world'.engines = world.engines )
        /\ ( Calls("launch_browser") /\ ~last'.raised
             => /\ last'.ret = _browser' /\ last'.ret # 0
                /\ Len(world'.browsers) <= Len(world.browsers) + 1 )
        /\ ( Calls("create_driver") /\ last.op = "create_driver" /\ ~last.raised
             => /\ ~last'.raised
                /\ last'.ret = last.ret
                /\ _driver' = last.ret
                /\ world'.drivers = world.drivers )
        /\ ( Calls("create_driver") /\ ~last'.raised
             => /\ last'.ret = _driver' /\ last'.ret # 0
                /\ Len(world'.drivers) <= Len(world.drivers) + 1 )
      ]_vars

\* launch_browser has returned twice in a row and one browser was launched
C4_Witness ==
    /\ last.op = "launch_browser" /\ last.streak = 2
    /\ last.ret = 1 /\ _browser = 1
    /\ Len(world.browsers) = 1

FactoryClean ==
    /\ _pages = <<>>
    /\ _contexts = <<>>
    /\ _browser = 0
    /\ _playwright = 0

\* C5: after every close(), the first and the one that follows it directly,
\* no error was raised, the tracked page and context sets are empty and no
\* browser, engine or driver handle is held; the second close() releases
\* nothing.
C5_CloseIdempotent ==
    /\ last.op = "close" => ~last.raised /\ FactoryClean
    /\ last.op = "close" /\ last.streak >= 2 => last.log = <<>>
    /\ last.op = "mobile_close" => ~last.raised /\ _driver = 0
    /\ last.op = "mobile_close" /\ last.streak >= 2 => last.log = <<>>

\* close() has been called twice in a row on a factory that had created a page
C5_Witness ==
    /\ last.op = "close" /\ last.streak = 2
    /\ Len(world.pages) >= 1
    /\ FactoryClean

Rank(kind) ==
    CASE kind = "page" -> 1
      [] kind = "context" -> 2
      [] kind = "browser" -> 3
      [] kind = "playwright" -> 4
      [] OTHER -> 5

\* C6: in the release events of every close(), pages come before contexts,
\* contexts before the browser and the browser before the engine.
C6_ReleaseOrder ==
    last.op = "close" =>
        \A i \in 1..Len(last.log) : \A j \in 1..Len(last.log) :
            i < j => Rank(last.log[i].kind) <= Rank(last.log[j].kind)

\* a close() that released two pages, a context, the browser and the engine
C6_Witness ==
    /\ last.op = "close"
    /\ Len(last.log) >= 5
    /\ last.log[1].kind = "page" /\ last.log[2].kind = "page"
    /\ \E i \in 1..Len(last.log) : last.log[i].kind = "context"
    /\ \E i \in 1..Len(last.log) : last.log[i].kind = "browser"
    /\ last.log[Len(last.log)].kind = "playwright"

\* C7: whatever release steps raise, close() attempts every release step of
\* the factory (each tracked page and context, the browser, the engine, the
\* driver), does not raise, and leaves the tracked sets empty and the
\* references cleared.
C7_BestEffortClose ==
    [][ /\ ( Calls("close")
             => /\ \A t \in ReleaseTargets(Factory) :
                      \E i \in 1..Len(last'.log) :
                          last'.log[i].kind = t[1] /\ last'.log[i].id = t[2]
                /\ Len(last'.log) = Cardinality(ReleaseTargets(Factory))
                /\ ~last'.raised
                /\ _pages' = <<>> /\ _contexts' = <<>>
                /\ _browser' = 0 /\ _playwright' = 0 )
        /\ ( Calls("mobile_close")
             => /\ _driver # 0 =>
                      /\ Len(last'.log) = 1
                      /\ last'.log[1].kind = "driver" /\ last'.log[1].id = _driver
                /\ ~last'.raised
                /\ _driver' = 0 )
      ]_vars

\* a close() in which the first page release raised and the later steps of
\* every kind were still made, the browser release raising too
C7_Witness ==
    /\ last.op = "close"
    /\ Len(last.log) >= 4
    /\ last.log[1].kind = "page" /\ ~last.log[1].ok
    /\ \E i \in 1..Len(last.log) : last.log[i].kind = "context" /\ last.log[i].ok
    /\ \E i \in 1..Len(last.log) : last.log[i].kind = "browser" /\ ~last.log[i].ok
    /\ last.log[Len(last.log)].kind = "playwright"
    /\ FactoryClean

\* C8: after close(), every page that create_page returned, that was never
\* passed to close_page and whose context was never passed to close_context,
\* has been released by close(); close() did not raise.
C8_TransitiveTeardown ==
    last.op = "close" =>
        /\ ~last.raised
        /\ \A p \in 1..Len(world.pages) :
              /\ world.pages[p].returned
              /\ world.pages[p].dropped # "close_page"
              /\ world.ctxs[world.pages[p].ctx].dropped # "close_context"
              => /\ world.pages[p].dropped = "close"
                 /\ ~InList(_pages, p)

\* close() released a page whose context nobody closed before
C8_Witness ==
    /\ last.op = "close"
    /\ \E i \in 1..Len(last.log) :
          /\ last.log[i].kind = "page"
          /\ world.pages[last.log[i].id].returned
          /\ world.pages[last.log[i].id].dropped = "close"
          /\ world.ctxs[world.pages[last.log[i].id].ctx].dropped = "close"

\* C9: close_page(P) / close_context(C) remove the handle from the tracked
\* list and call its close(); when that raises, nothing is raised to the
\* caller and the handle is no longer tracked; a handle that is not tracked
\* is closed without raising and the tracked list is unchanged.
C9_ClosePageBestEffort ==
    [][ /\ ( Calls("close_page")
             => LET p == last'.log[1].id
                IN  /\ ~last'.raised
                    /\ last'.log[1].kind = "page"
                    /\ ~InList(_pages', p)
                    /\ _pages' = Remove(_pages, p)
                    /\ ~InList(_pages, p) => _pages' = _pages
                    /\ _contexts' = _contexts )
        /\ ( Calls("close_context")
             => LET c == last'.log[1].id
                IN  /\ ~last'.raised
                    /\ last'.log[1].kind = "context"
                    /\ ~InList(_contexts', c)
                    /\ _contexts' = Remove(_contexts, c)
                    /\ ~InList(_contexts, c) => _contexts' = _contexts
                    /\ _pages' = _pages )
      ]_vars

\* close_page was called for a tracked page and page.close() raised
C9_Witness ==
    /\ last.op = "close_page"
    /\ ~last.log[1].ok
    /\ world.pages[last.log[1].id].dropped = "close_page"
    /\ ~InList(_pages, last.log[1].id)

\* C10: every context and page that exists is in the factory's tracked list
\* until close_context / close_page / close removes it, whatever the later
\* steps of the create call do.
C10_CreatedIsTracked ==
    /\ \A c \in 1..Len(world.ctxs) :
          InList(_contexts, c) \/ world.ctxs[c].dropped # "no"
    /\ \A p \in 1..Len(world.pages) :
          InList(_pages, p) \/ world.pages[p].dropped # "no"

----------------------------------------------------------------------------
(* Resolution errors and frame of the environment layer (C16, C18, C19)    *)

\* C16: building the resolved browser / mobile configuration returns a
\* configuration and raises nothing, for every file config, every value of
\* the recognised environment variables and every CLI override map.
C16_ResolutionNeverFails == pc # "ValueError"

\* the file's (or the default) value of one viewport dimension
FileOrDefaultViewport(dim, default) ==
    IF Has(FileViewport, dim) THEN FileViewport[dim] ELSE default

\* C18: with only one of BROWSER_VIEWPORT_WIDTH / BROWSER_VIEWPORT_HEIGHT set,
\* the resolved viewport takes that dimension from the environment and keeps
\* the other one from the file config (or its default): the nested key is
\* merged at the leaf and the viewport object is not replaced.
C18_LeafMerge ==
    BrowserBuilt =>
        /\ ( EnvDefines("BROWSER_VIEWPORT_WIDTH") /\ ~EnvDefines("BROWSER_VIEWPORT_HEIGHT")
             => /\ config.viewport_width = EnvInt("BROWSER_VIEWPORT_WIDTH")
                /\ config.viewport_height =
                      FileOrDefaultViewport("height", DefaultViewportHeight) )
        /\ ( EnvDefines("BROWSER_VIEWPORT_HEIGHT") /\ ~EnvDefines("BROWSER_VIEWPORT_WIDTH")
             => /\ config.viewport_height = EnvInt("BROWSER_VIEWPORT_HEIGHT")
                /\ config.viewport_width =
                      FileOrDefaultViewport("width", DefaultViewportWidth) )

\* only the width comes from the environment and the file gives a height
C18_Witness ==
    /\ BrowserBuilt
    /\ EnvDefines("BROWSER_VIEWPORT_WIDTH") /\ ~Has(environ, "BROWSER_VIEWPORT_HEIGHT")
    /\ Has(FileViewport, "height") /\ ~Has(FileViewport, "width")
    /\ config.viewport_width = 1280 /\ config.viewport_height = 600

\* the environment without one variable
Unset(env, v) == [k \in DOMAIN env \ {v} |-> env[k]]

\* the fields on which two resolved configurations differ
Changed(a, b) == {k \in DOMAIN a : a[k] # b[k]}

\* the resolved settings the run's factory would have without variable v
BrowserWithout(v) ==
    BrowserConfig_from_dict(
        _build_config(file_config, Unset(environ, v), cli_overrides).merged)
MobileWithout(v) ==
    mobile_build_config(core_config, data_config, Unset(environ, v),
                        mobile_overrides)

\* the fields of the resolved configuration a variable has changed
ChangedBy(v) ==
    IF run = "browser" THEN Changed(config, BrowserWithout(v))
    ELSE Changed(mobile_config, MobileWithout(v))

RecognizedEnvVars == DOMAIN BrowserEnvValues \cup DOMAIN MobileEnvValues

EnvTargets(v) ==
    IF run = "browser"
    THEN CASE v = "BROWSER_TYPE"            -> {"browser_type"}
           [] v = "BROWSER_HEADLESS"        -> {"headless"}
           [] v = "BROWSER_SLOW_MO"         -> {"slow_mo"}
           [] v = "BROWSER_TIMEOUT"         -> {"timeout"}
           [] v = "BROWSER_VIEWPORT_WIDTH"  -> {"viewport_width"}
           [] v = "BROWSER_VIEWPORT_HEIGHT" -> {"viewport_height"}
           [] OTHER -> {}
    ELSE CASE v = "MOBILE_PLATFORM"         -> {"platform"}
           [] v = "MOBILE_APPIUM_SERVER"    -> {"appium_server"}
           [] v = "MOBILE_DEVICE_NAME"      -> {"android_device_name", "ios_device_name"}
           [] v = "MOBILE_PLATFORM_VERSION" -> {"android_platform_version",
                                                "ios_platform_version"}
           [] v = "MOBILE_APP_PATH"         -> {"android_app_path", "ios_app_path"}
           [] v = "MOBILE_UDID"             -> {"ios_udid"}
           [] v = "MOBILE_NO_RESET"         -> {"no_reset"}
           [] v = "MOBILE_FULL_RESET"       -> {"full_reset"}
           [] OTHER -> {}

----------------------------------------------------------------------------
(* Settings: missing files and the session cache (C17, C20)                *)

\* the files a config path argument designates
Designated(filename, arg) ==
    IF arg # <<>> /\ arg[1] # <<>>
    THEN {IF arg[1] \in Dirs THEN Append(arg[1], filename) ELSE arg[1]}
    ELSE {<<filename>>, <<"configs", filename>>, Append(PackageDir, filename)}

\* the file is not found in any searched location / the given path is absent
Missing(filename, arg) == Designated(filename, arg) \cap fs = {}
\* every designated file that exists holds YAML
Parses(filename, arg) ==
    \A f \in Designated(filename, arg) \cap fs : FileDocs[f].parses

\* C17: a missing configuration file is not an error: when the core or the
\* data file is not found (no searched location has it, or the explicitly
\* given path does not exist) the Settings built have, for that file, the
\* compiled-in defaults, and the missing file makes no call raise.
C17_MissingFileGivesDefaults ==
    slast.n > 0 =>
        LET coreMissing == Missing(CoreName, slast.core_path)
            dataMissing == Missing(DataName, slast.data_path)
        IN  /\ ( slast.built /\ coreMissing => heap[slast.ret].core = CoreConfig_cls )
            /\ ( slast.built /\ dataMissing => heap[slast.ret].data = DataConfig_cls )
            /\ ( coreMissing /\ (dataMissing \/ Parses(DataName, slast.data_path))
                 => ~slast.raised )
            /\ ( dataMissing /\ (coreMissing \/ Parses(CoreName, slast.core_path))
                 => ~slast.raised )

\* an explicit core path that does not exist gave the defaults although a
\* core file is present in a searched location, next to a data file found
C17_Witness ==
    /\ slast.built
    /\ slast.core_path = << <<"ci", "gone.yml">> >>
    /\ <<CoreName>> \in fs
    /\ heap[slast.ret].core = CoreConfig_cls
    /\ \E i \in 1..Len(heap) : heap[i].core.environment = "dev"

\* C20: a get_settings call without reload=True returns the cached Settings
\* instance - the one the first call built, as long as no reload was made -
\* whatever paths it passes, and builds nothing; a call with reload=True
\* builds a new instance that replaces the cached one; no call modifies an
\* instance returned earlier; load_config returns a new instance built from
\* its own paths and leaves the cached instance as it is.
C20_SettingsBuiltOnce ==
    [][ slast'.n # slast.n =>
          /\ Len(heap') >= Len(heap)
          /\ \A i \in 1..Len(heap) : heap'[i] = heap[i]
          /\ ( slast'.op = "get_settings" /\ ~slast'.reload /\ _settings_instance # 0
               => /\ ~slast'.raised
                  /\ slast'.ret = _settings_instance
                  /\ _settings_instance' = _settings_instance
                  /\ heap' = heap
                  /\ (~slast'.reloaded => slast'.ret = slast'.first) )
          /\ ( slast'.op = "get_settings" /\ slast'.reload /\ ~slast'.raised
               => /\ Len(heap') = Len(heap) + 1
                  /\ slast'.ret = Len(heap')
                  /\ _settings_instance' = slast'.ret )
          /\ ( slast'.op = "load_config"
               => /\ _settings_instance' = _settings_instance
                  /\ ( ~slast'.raised
                       => /\ Len(heap') = Len(heap) + 1
                          /\ slast'.ret = Len(heap')
                          /\ slast'.ret # _settings_instance
                          /\ heap'[slast'.ret] =
                               Settings_from_yaml(fs, slast'.core_path,
                                                  slast'.data_path).val ) )
      ]_vars

\* a later call with other paths got the instance of the first call, whose
\* paths give other settings than the ones cached
C20_Witness ==
    /\ slast.op = "get_settings" /\ ~slast.reload /\ ~slast.built
    /\ slast.n = 2 /\ slast.ret = slast.first
    /\ slast.core_path # <<>>
    /\ ~Settings_from_yaml(fs, slast.core_path, slast.data_path).raised
    /\ Settings_from_yaml(fs, slast.core_path, slast.data_path).val # heap[slast.ret]

----------------------------------------------------------------------------
(* Failure-artifact collection (C11 - C14)                                  *)

\* the hook has processed the report of the phase
Processed(when) == \E i \in 1..Len(reports) : reports[i].when = when
\* the phase ended in a failure
FailedIn(when) == \E i \in 1..Len(reports) : reports[i].when = when /\ reports[i].failed

HandleSlots == {"page", "ui_actions", "appium_driver", "mobile_actions"}
NoHandleSlot == \A k \in HandleSlots : ~Has(item.funcargs, k)

\* C11: when the test has failed and item.funcargs holds none of the slots
\* page, ui_actions, appium_driver, mobile_actions, the hook has made no
\* allure.attach call and has not raised.
C11_NoHandleNoAttachment ==
    (FailedIn("call") /\ NoHandleSlot) => (attached = <<>> /\ ~capture.raised)

\* a failed test that holds a context but no handle slot went through the
\* collection
C11_Witness ==
    /\ FailedIn("call") /\ collections = 1
    /\ NoHandleSlot /\ Has(item.funcargs, "context")

IsAttached(s) ==
    \E i \in 1..Len(attached) : CStep(attached[i].handle, attached[i].kind) = s
IsLogged(s) ==
    \E i \in 1..Len(logged) : CStep(logged[i].handle, logged[i].kind) = s

\* a capture that does not raise attaches its artifact; the video capture
\* has nothing to attach when the page has no video
Succeeds(s) == s = CStep("page", "video") => capture.has_video

\* C12: for each handle found, when exactly one of its capture steps raises,
\* every other step the hook reaches for the handle has still run and has
\* attached its artifact, the failing step is logged and attaches nothing,
\* the hook has not raised and the report of the call phase is still failed.
C12_IndependentCaptures ==
    collections = 1 =>
       \A handle \in {"page", "driver"} :
          LET Own == {s \in AppliedSteps(item.funcargs) : s.handle = handle}
              Bad == Own \cap capture.fails
          IN  Cardinality(Bad) = 1 =>
                 /\ \A s \in Own \ Bad : Succeeds(s) => (IsAttached(s) /\ ~IsLogged(s))
                 /\ \A s \in Bad : IsLogged(s) /\ ~IsAttached(s)
                 /\ ~capture.raised
                 /\ FailedIn("call")

\* the page source capture raised in the middle of the page captures
C12_Witness ==
    /\ collections = 1
    /\ capture.fails = {CStep("page", "source")}
    /\ IsAttached(CStep("page", "trace"))
    /\ IsLogged(CStep("page", "source"))

\* the place of each kind in the capture order of the claim
CaptureRank(kind) ==
    CASE kind = "screenshot" -> 1
      [] kind = "url" -> 2
      [] kind = "source" -> 3
      [] kind \in {"trace", "device"} -> 4
      [] kind = "video" -> 5

\* the captures attempted: the attached ones and the logged ones
Attempts ==
    {[handle |-> attached[i].handle, kind |-> attached[i].kind, at |-> attached[i].at] :
        i \in 1..Len(attached)}
    \cup {logged[i] : i \in 1..Len(logged)}

\* C13: the captures of one handle are attempted in the order screenshot,
\* URL, source, trace / device metadata, and in the sequence of allure.attach
\* calls an artifact of a later kind never precedes one of an earlier kind
\* for the same handle.
C13_FixedCaptureOrder ==
    /\ \A x, y \in Attempts :
          (x.handle = y.handle /\ x.at < y.at) => CaptureRank(x.kind) < CaptureRank(y.kind)
    /\ \A i, j \in 1..Len(attached) :
          (i < j /\ attached[i].handle = attached[j].handle)
             => CaptureRank(attached[i].kind) <= CaptureRank(attached[j].kind)

\* both handles were found and all four kinds were attached
C13_Witness ==
    /\ collections = 1
    /\ \A s \in {CStep("page", "screenshot"), CStep("page", "url"),
                 CStep("page", "source"), CStep("page", "trace"),
                 CStep("driver", "screenshot"), CStep("driver", "device")} :
          IsAttached(s)
    /\ IsLogged(CStep("driver", "source"))

\* C14 as claimed: once all three phases are reported, the artifacts have
\* been collected once if a phase of the test failed and never if none did.
C14_OncePerFailedTest ==
    rpc = "done" =>
       collections = (IF \E w \in {"setup", "call", "teardown"} : FailedIn(w)
                      THEN 1 ELSE 0)

\* settings.core.browser.screenshot_on_failure of the session
ScreenshotOnFailure ==
    _settings_instance # 0
    /\ heap[_settings_instance].core.browser.screenshot_on_failure

\* C14 (amended): the artifacts are collected at most once per test, in the
\* report of the call phase: once when the call phase failed,
\* core.browser.screenshot_on_failure is set and the item has funcargs, and
\* never otherwise - in particular not for a failure in setup or teardown.
C14_OncePerFailedCall ==
    collections = (IF FailedIn("call") /\ ScreenshotOnFailure /\ item.has_funcargs
                   THEN 1 ELSE 0)

\* a run whose call failed and whose teardown failed as well: one collection
C14_Witness ==
    /\ rpc = "done"
    /\ collections = 1
    /\ FailedIn("call") /\ FailedIn("teardown")

----------------------------------------------------------------------------
(* Error propagation (C15)                                                  *)

\* the report of the setup phase, pending or processed
SetupReport ==
    IF reports # <<>> THEN <<reports[1]>>
    ELSE IF pending # <<>> /\ pending[1].when = "setup" THEN <<pending[1]>>
    ELSE <<>>

\* a creation error of launch_browser / create_driver (or of any fixture)
\* fails the setup phase and leaves no value behind; a setup that passed
\* has provided a browser and a driver that exist
CreationErrorsPropagate ==
    SetupReport # <<>> =>
       /\ SetupReport[1].failed
             <=> \E n \in Closure(item.requested) : ~Has(item.funcargs, n)
       /\ Has(item.funcargs, "browser")
             => item.funcargs["browser"] \in 1..Len(world.browsers)
       /\ Has(item.funcargs, "appium_driver")
             => item.funcargs["appium_driver"] \in 1..Len(world.drivers)

PropagatingOps ==
    {"click", "fill", "wait_for_element", "tap", "mobile_wait_for_element",
     "get_current_user"}

----------------------------------------------------------------------------
(* Handle lifecycle and resource ownership (C21 - C23)                     *)

NoDisconnect ==
    \A b \in DOMAIN world.browsers : world.browsers[b].state # "disconnected"

NothingCreated ==
    _pages = <<>> /\ _contexts = <<>> /\ _browser = 0 /\ _playwright = 0

\* C21: over the calls on one factory, the primary handle is created only
\* when the factory holds none (for the browser: none that is connected);
\* close() drops the held handle and closes it when its release step does not
\* raise; close() with nothing created changes nothing; a create call never
\* returns a handle a close() has released: after close() it returns a new one.
C21_HandleLifecycle ==
    [][ /\ ( Calls("launch_browser")
             => /\ ( world'.browsers # world.browsers
                     => /\ _browser = 0 \/ ~is_connected(world, _browser)
                        /\ NoDisconnect => _browser = 0
                        /\ Len(world'.browsers) = Len(world.browsers) + 1 )
                /\ ( ~last'.raised
                     => /\ last'.ret = _browser'
                        /\ <<"browser", last'.ret>> \notin world'.released
                        /\ ( _browser = 0 => last'.ret \notin DOMAIN world.browsers ) ) )
        /\ ( Calls("create_driver") \/ Calls("get_driver")
             => /\ ( world'.drivers # world.drivers
                     => /\ _driver = 0
                        /\ Len(world'.drivers) = Len(world.drivers) + 1 )
                /\ ( ~last'.raised
                     => /\ last'.ret = _driver'
                        /\ <<"driver", last'.ret>> \notin world'.released
                        /\ ( _driver = 0 => last'.ret \notin DOMAIN world.drivers ) ) )
        /\ ( Calls("close")
             => /\ _browser' = 0 /\ _playwright' = 0
                /\ ( _browser # 0
                     => /\ <<"browser", _browser>> \in world'.released
                        /\ ( \A i \in 1..Len(last'.log) :
                                 last'.log[i].kind = "browser" => last'.log[i].ok )
                           => world'.browsers[_browser].state # "connected" )
                /\ ( NothingCreated
                     => world' = world /\ last'.log = <<>> /\ NothingCreated' ) )
        /\ ( Calls("mobile_close")
             => /\ _driver' = 0
                /\ ( _driver # 0
                     => /\ <<"driver", _driver>> \in world'.released
                        /\ ( last'.log[1].ok => world'.drivers[_driver] = "quit" ) )
                /\ ( _driver = 0 => world' = world /\ last'.log = <<>> ) )
      ]_vars

\* after create, close, create the factory holds a second driver and the
\* first one is quit
C21_Witness ==
    /\ last.op = "create_driver" /\ ~last.raised
    /\ last.ret = 2 /\ _driver = 2
    /\ <<"driver", 1>> \in world.released
    /\ world.drivers[1] = "quit"

\* after launch, close, launch the factory holds a second browser
C21_WitnessBrowser ==
    /\ last.op = "launch_browser" /\ ~last.raised
    /\ last.ret = 2 /\ _browser = 2
    /\ <<"browser", 1>> \in world.released

Running(w) == {e \in DOMAIN w.engines : w.engines[e] = "running"}
Connected(w) == {b \in DOMAIN w.browsers : w.browsers[b].state = "connected"}

\* C22: the objects the factory has started include at most one connected
\* browser and at most one running engine, and after close() none of them
\* is still running.
C22_OneLivePrimary ==
    /\ Cardinality(Connected(world)) <= 1
    /\ Cardinality(Running(world)) <= 1
    /\ last.op = "close" => Connected(world) = {} /\ Running(world) = {}

\* C23: every page in the tracked page list belongs to a context that is in
\* the tracked context list.
C23_PagesInTrackedContexts ==
    \A i \in 1..Len(_pages) : InList(_contexts, world.pages[_pages[i]].ctx)

\* a relaunch after a disconnect has left two engines running
C22_TwoEngines ==
    /\ last.op = "launch_browser" /\ ~last.raised
    /\ Cardinality(Running(world)) = 2
    /\ world.browsers[1].state = "disconnected"

\* close_context has removed a context whose page is still tracked
C23_OrphanPage ==
    /\ last.op = "close_context"
    /\ \E i \in 1..Len(_pages) :
          /\ world.ctxs[world.pages[_pages[i]].ctx].dropped = "close_context"
          /\ world.ctxs[world.pages[_pages[i]].ctx].returned

----------------------------------------------------------------------------
(* The caller's configuration dict (C28)                                   *)

\* C28: after BrowserFactory(config, cli_overrides) the dict the caller
\* passed, its nested viewport dict included, is what it was before the call.
C28_CallerConfigUnchanged ==
    run = "browser" /\ pc \in {"built", "ValueError"} => caller_config = file_config

\* the factory was built from a file with a viewport while
\* BROWSER_VIEWPORT_WIDTH was set, and the caller's viewport changed
C28_SharedViewport ==
    /\ run = "browser" /\ pc = "built"
    /\ Has(file_config, "viewport") /\ Has(environ, "BROWSER_VIEWPORT_WIDTH")
    /\ caller_config["viewport"] # file_config["viewport"]

----------------------------------------------------------------------------
(* Handle discovery of the collectors (C24)                                *)

Collected == FailedIn("call") /\ collections = 1

\* C24: at a collection the page used is funcargs["page"] when that slot is
\* present, otherwise the page of funcargs["ui_actions"]; the driver used is
\* funcargs["appium_driver"] when present, otherwise the driver of
\* funcargs["mobile_actions"]; at most one page and one driver are used, and
\* with both present the captures of both are attempted.
C24_DiscoveryOrder ==
    Collected =>
        /\ ( Has(item.funcargs, "page") => capture.page = <<item.funcargs["page"]>> )
        /\ ( ~Has(item.funcargs, "page") /\ Has(item.funcargs, "ui_actions")
             => capture.page = <<item.funcargs["ui_actions"].page>> )
        /\ ( Has(item.funcargs, "appium_driver")
             => capture.driver = <<item.funcargs["appium_driver"]>> )
        /\ ( ~Has(item.funcargs, "appium_driver") /\ Has(item.funcargs, "mobile_actions")
             => capture.driver = <<item.funcargs["mobile_actions"].driver>> )
        /\ Len(capture.page) <= 1 /\ Len(capture.driver) <= 1
        /\ ( capture.page = <<>> => \A s \in PageSteps : ~IsAttached(s) /\ ~IsLogged(s) )
        /\ ( capture.driver = <<>>
             => \A s \in DriverSteps : ~IsAttached(s) /\ ~IsLogged(s) )
        /\ ( capture.page # <<>> /\ capture.driver # <<>>
             => /\ \A k \in {"screenshot", "url", "source"} :
                      IsAttached(CStep("page", k)) \/ IsLogged(CStep("page", k))
                /\ \A s \in DriverSteps : IsAttached(s) \/ IsLogged(s) )

\* a collection for an item whose page slot and ui_actions slot hold different
\* pages and whose two driver slots hold different drivers
C24_Witness ==
    /\ Collected
    /\ Has(item.funcargs, "page") /\ Has(item.funcargs, "ui_actions")
    /\ item.funcargs["ui_actions"].page # item.funcargs["page"]
    /\ capture.page = <<item.funcargs["page"]>>
    /\ Has(item.funcargs, "appium_driver") /\ Has(item.funcargs, "mobile_actions")
    /\ item.funcargs["mobile_actions"].driver # item.funcargs["appium_driver"]
    /\ capture.driver = <<item.funcargs["appium_driver"]>>
    /\ IsAttached(CStep("page", "screenshot"))
    /\ IsAttached(CStep("driver", "screenshot"))

----------------------------------------------------------------------------
(* Concurrent creation (C25)                                               *)

Launched(op) ==
    IF op = "launch_browser" THEN Len(world.browsers) ELSE Len(world.drivers)

Memoized(op) == IF op = "launch_browser" THEN _browser ELSE _driver

ReturnedOk(op) ==
    {i \in 1..Len(threads.returned) :
        threads.returned[i].op = op /\ ~threads.returned[i].raised}

AllIdle == \A t \in 1..MaxThreads : threads.of[t].pc = "idle"

\* C25: as long as the calls of an operation have not overlapped, at most
\* one handle has been launched, exactly one once a call has returned, and
\* every call returns it. Each launched handle belongs to a call that passed
\* the "already created" check, and the field holds the handle stored last.
C25_NonOverlappingLaunchOnce ==
    \A op \in CreateOps :
        /\ ( op \notin threads.overlap
             => /\ Launched(op) <= 1
                /\ ( ReturnedOk(op) # {}
                     => /\ Launched(op) = 1
                        /\ \A i \in ReturnedOk(op) : threads.returned[i].ret = 1 ) )
        /\ Launched(op) <= threads.passed[op]
        /\ Memoized(op) = threads.stored[op]

\* two overlapping launch_browser calls both passed the check: two browsers
\* were launched and the field holds the one stored last
C25_Witness ==
    /\ AllIdle /\ threads.n = 2
    /\ threads.overlap = {"launch_browser"}
    /\ threads.passed["launch_browser"] = 2
    /\ Len(world.browsers) = 2
    /\ Cardinality(ReturnedOk("launch_browser")) = 2
    /\ _browser = threads.stored["launch_browser"]

\* the same race on create_driver
C25_WitnessDriver ==
    /\ AllIdle /\ threads.n = 2
    /\ threads.overlap = {"create_driver"}
    /\ Len(world.drivers) = 2
    /\ Cardinality(ReturnedOk("create_driver")) = 2
    /\ _driver = 1

\* three calls one after the other launched one browser
C25_Sequential ==
    /\ AllIdle /\ threads.n = 3 /\ threads.overlap = {}
    /\ Cardinality(ReturnedOk("launch_browser")) = 3
    /\ Len(world.browsers) = 1

----------------------------------------------------------------------------
(* API client (C26, C27)                                                   *)

\* C26: get_last_status_code() returns the status code of the response the
\* last request method returned, whatever the code, and None before any
\* request; assert_status_code(expected) passes exactly when that status is
\* expected.
C26_LastStatusCode ==
    /\ ( api.op = "get_last_status_code"
         => api.ret = IF api.returned = <<>> THEN <<>>
                      ELSE <<api.returned[1].status_code>> )
    /\ ( api.op = "assert_status_code" /\ api.returned # <<>>
         => ( api.raised = "none" <=> api.returned[1].status_code = api.arg ) )

\* a request returned a 404 response and get_last_status_code() returned None
C26_ErrorStatusLost ==
    /\ api.op = "get_last_status_code"
    /\ api.returned # <<>> /\ api.returned[1].status_code = 404
    /\ api.ret = <<>>

\* C27: is_authenticated is true exactly when the session carries an
\* Authorization header, and that header is "Bearer " followed by the stored
\* token.
C27_AuthConsistent ==
    /\ is_authenticated(api) <=> api.Authorization # <<>>
    /\ api.Authorization # <<>>
          => api._token # <<>> /\ api.Authorization = <<Bearer \o api._token[1]>>

\* a login answered 200 without a token after a successful login: the token
\* is gone and the session still carries the old header
C27_StaleHeader ==
    /\ api.op = "authenticate" /\ api.raised = "none"
    /\ api._token = <<>>
    /\ api.Authorization = <<Bearer \o T1>>

----------------------------------------------------------------------------
(* Singleton replacement (C29)                                             *)

\* the factory holds a browser, engine, context or page that was not released
HoldsBrowserResources(f) ==
    \/ f.br # 0 /\ is_connected(world, f.br)
    \/ f.pw # 0 /\ world.engines[f.pw] = "running"
    \/ \E i \in 1..Len(f.ctxs) : world.ctxs[f.ctxs[i]].open
    \/ f.pgs # <<>>

HoldsDriver(d) == d # 0 /\ world.drivers[d] = "active"

\* C29: of the factories obtained through the singleton functions at most one
\* of a kind holds unreleased resources; a factory replaced by a force_new
\* call holds none; without force_new a call returns the current singleton.
C29_ReplacedIsReleased ==
    /\ Cardinality({i \in 1..Len(registry.browsers) :
                       HoldsBrowserResources(registry.browsers[i])}) <= 1
    /\ Cardinality({i \in 1..Len(registry.mobiles) :
                       HoldsDriver(registry.mobiles[i])}) <= 1
    /\ ( registry.op = "get_browser_factory" /\ registry.force_new /\ registry.prev # 0
         => ~HoldsBrowserResources(registry.browsers[registry.prev]) )
    /\ ( registry.op = "get_mobile_factory" /\ registry.force_new /\ registry.prev # 0
         => ~HoldsDriver(registry.mobiles[registry.prev]) )
    /\ ( registry.op \in {"get_browser_factory", "get_mobile_factory"}
         /\ ~registry.force_new /\ registry.prev # 0
         => registry.ret = registry.prev )

\* get_mobile_factory(force_new=True) has replaced a factory whose driver is
\* still active
C29_LeakedDriver ==
    /\ registry.op = "get_mobile_factory" /\ registry.force_new
    /\ registry.prev = 1 /\ registry.mobile = 2
    /\ HoldsDriver(registry.mobiles[1])

----------------------------------------------------------------------------
(* scroll_to_element (C30)                                                 *)

Unsuccessful ==
    Cardinality({k \in 1..Len(scroll.checks) : scroll.checks[k] \in {"hidden", "missing"}})

ScrollSafe ==
    \* never more than max_scrolls swipes, one after each unsuccessful check
    /\ scroll.swipes <= scroll.max_scrolls
    /\ scroll.swipes = IF scroll.pc = "swipe" THEN Unsuccessful - 1 ELSE Unsuccessful
    \* nothing follows a check that finds the element displayed
    /\ \A k \in 1..Len(scroll.checks) :
          scroll.checks[k] = "displayed"
          => k = Len(scroll.checks) /\ scroll.pc = "done" /\ scroll.raised = "none"
                /\ scroll.swipes = k - 1
    /\ ( scroll.pc = "done" /\ scroll.raised = "none"
         => scroll.checks # <<>> /\ scroll.checks[Len(scroll.checks)] = "displayed" )
    \* NoSuchElementException after exactly max_scrolls unsuccessful checks
    /\ ( scroll.pc = "done" /\ scroll.raised = "NoSuchElementException"
         => Unsuccessful = scroll.max_scrolls /\ Len(scroll.checks) = scroll.max_scrolls )
    /\ ( scroll.pc = "done" /\ Unsuccessful = scroll.max_scrolls
         /\ scroll.raised # "WebDriverException"
         => scroll.raised = "NoSuchElementException" )

\* C30: every scroll_to_element call ends. It returns with no further swipe
\* at the first check that finds the element displayed, makes one swipe
\* after each check that finds it missing or not displayed, never more than
\* max_scrolls swipes, and raises NoSuchElementException after exactly
\* max_scrolls unsuccessful checks; an error of the driver ends the call.
C30_ScrollTerminates == []ScrollSafe /\ <>(scroll.pc = "done")

\* the call has raised NoSuchElementException after three unsuccessful
\* checks and three swipes
C30_Witness ==
    /\ scroll.pc = "done" /\ scroll.raised = "NoSuchElementException"
    /\ scroll.max_scrolls = 3 /\ scroll.swipes = 3
    /\ scroll.checks = <<"hidden", "missing", "hidden">>

\* the call has returned at the second check, after one swipe
C30_Found ==
    /\ scroll.pc = "done" /\ scroll.raised = "none"
    /\ scroll.max_scrolls = 3 /\ scroll.swipes = 1
    /\ scroll.checks = <<"missing", "displayed">>

====
